---- MODULE Spec2Model ----
(***************************************************************************)
(* Combat subsystem of talekeeper: the dataclass-based CombatEngine        *)
(* (backend/services/combat_engine.py), the desktop CombatService          *)
(* (services/combat.py) and the web router's inline turn handling          *)
(* (backend/routers/combat.py).                                            *)
(***************************************************************************)
EXTENDS Integers, Sequences, FiniteSets, TLC

VARIABLES engine, service, web, probe, ret

vars == <<engine, service, web, probe, ret>>

None == "None"

Max(a, b) == IF a >= b THEN a ELSE b
Min(a, b) == IF a <= b THEN a ELSE b

(***************************************************************************)
(* Bounds of the model.                                                    *)
(***************************************************************************)
MaxRound == 2        \* rounds played before end_turn is no longer issued
MaxLog == 10         \* combat_log entries before logging calls are no longer issued
HpCap == 4           \* largest current_hp explored (negative damage raises it)
SaveCap == 4         \* largest death_saves_success explored
MoveCap == 60        \* largest movement_remaining explored (Dash adds speed)
MaxRolls == 3        \* death saves rolled in a row for one dying combatant
MaxHp == 10          \* largest max_hp given to the take_damage harness
TempCap == 5         \* largest temp_hp given to the take_damage harness
DamageCap == 12      \* largest damage of one take_damage call
MaxHits == 2         \* take_damage calls per harness run
BonusCap == 10       \* largest attack bonus given to the attack harness
AcCap == 22          \* largest armor class given to the attack harness
TargetHp == 20       \* hit points of the target in the attack harness
InitCap == 4         \* largest d20 result of the initiative harness
MaxTurns == 2        \* monster turns played by the monster AI harness
MaxSteps == 4        \* operations issued to the two encounters together
ScoreCap == 30       \* ability scores explored: -ScoreCap .. ScoreCap
MaxPending == 3      \* timer callbacks waiting before End Turn is no longer clicked

D20 == 1..20
\* attack d20 results tried in a fight: fumble, miss, hit, critical
AttackD20 == {1, 5, 15, 20}

(***************************************************************************)
(* Combatants handed to start_combat.                                      *)
(***************************************************************************)
PlayerId == "p1"
MonsterIds == {"m1"}
Ids == {PlayerId} \cup MonsterIds
DictOrder == <<"p1", "m1">>      \* insertion order of CombatEngine.combatants
UnknownId == "zz"
\* initiative d20 results tried at start_combat: a tie and a monster-first order
InitRolls == {[i \in Ids |-> IF i = PlayerId THEN 6 ELSE 5],
              [i \in Ids |-> IF i = PlayerId THEN 5 ELSE 6]}

ActionTypes == {"action", "bonus_action", "reaction", "movement", "free"}
Positions == {"melee", "ranged"}

Combatant(id, type, max_hp, current_hp, ac, initiative_bonus, dexterity) ==
    [id |-> id, type |-> type, max_hp |-> max_hp, current_hp |-> current_hp,
     ac |-> ac, initiative_bonus |-> initiative_bonus, speed |-> 30,
     dexterity |-> dexterity, position |-> "ranged", initiative |-> 0,
     has_taken_action |-> FALSE, has_taken_bonus |-> FALSE,
     has_taken_reaction |-> FALSE, movement_remaining |-> 30,
     conditions |-> <<>>, temp_hp |-> 0,
     death_saves_success |-> 0, death_saves_failure |-> 0]

Roster ==
    [i \in Ids |->
        IF i = PlayerId THEN Combatant(i, "player", 3, 2, 12, 1, 14)
        ELSE Combatant(i, "monster", 2, 2, 11, 2, 12)]

(***************************************************************************)
(* Combatant methods.                                                      *)
(***************************************************************************)
ability_modifier(score) == (score - 10) \div 2

is_alive(c) == c.current_hp > 0

\* variant: the damage goes to current_hp without consuming temp_hp
take_damage_past_temp_hp(c, damage) ==
    LET hp == Max(0, c.current_hp - damage)
    IN [c EXCEPT !.current_hp = hp,
                 !.death_saves_failure =
                     IF hp = 0 /\ damage >= c.max_hp THEN 3
                     ELSE c.death_saves_failure]

take_damage(c, damage) ==
    IF c.temp_hp > 0 /\ damage <= c.temp_hp
    THEN [c EXCEPT !.temp_hp = c.temp_hp - damage]
    ELSE LET rest == IF c.temp_hp > 0 THEN damage - c.temp_hp ELSE damage
             hp == Max(0, c.current_hp - rest)
         IN [c EXCEPT !.temp_hp = IF c.temp_hp > 0 THEN 0 ELSE c.temp_hp,
                      !.current_hp = hp,
                      !.death_saves_failure =
                          IF hp = 0 /\ rest >= c.max_hp THEN 3
                          ELSE c.death_saves_failure]

heal(c, amount) ==
    [c EXCEPT !.death_saves_success = IF c.current_hp = 0 THEN 0 ELSE @,
              !.death_saves_failure = IF c.current_hp = 0 THEN 0 ELSE @,
              !.current_hp = Min(c.max_hp, c.current_hp + amount)]

(***************************************************************************)
(* DiceRoller.roll on a notation NdM+K whose dice came up with sum s.      *)
(***************************************************************************)
roll(s, k) == Max(0, s + k)

DiceSums(n, m) == n..(n * m)

(***************************************************************************)
(* Action descriptors (the dicts handed to process_action).  kind says     *)
(* which of the keys "attack" / "heal" / "special" the dict carries; the   *)
(* damage and heal dice are dmgN d dmgM + dmgK.                            *)
(***************************************************************************)
Action(type, kind, name, sub_action, range, damage_bonus, position) ==
    [type |-> type, kind |-> kind, name |-> name, sub_action |-> sub_action,
     range |-> range, bonus |-> 0, dmgN |-> 1, dmgM |-> 2, dmgK |-> 0,
     damage_bonus |-> damage_bonus, position |-> position]

Shoot == Action("action", "attack", "Shortbow", None, "ranged", 0, None)
Stab == Action("action", "attack", "Dagger", None, "melee", 0, None)
Curse == Action("free", "attack", "Feeble Ray", None, "ranged", -3, None)
Potion == Action("bonus_action", "heal", "Potion", None, None, 0, None)
SecondWind == Action("bonus_action", "special", "Second Wind", None, None, 0, None)
ActionSurge == Action("free", "special", "Action Surge", None, None, 0, None)
CunningDash == Action("bonus_action", "special", "Cunning Action", "dash", None, 0, None)
CunningDisengage == Action("bonus_action", "special", "Cunning Action", "disengage", None, 0, None)
CunningHide == Action("bonus_action", "special", "Cunning Action", "hide", None, 0, None)
CunningOther == Action("bonus_action", "special", "Cunning Action", "tumble", None, 0, None)
SneakAttack == Action("free", "special", "Sneak Attack", None, None, 0, None)
Mystery == Action("action", "special", "Mystery", None, None, 0, None)
MoveMelee == Action("movement", "none", "Move", None, None, 0, "melee")
MoveRanged == Action("movement", "none", "Move", None, None, 0, "ranged")
MoveNowhere == Action("movement", "none", "Move", None, None, 0, "flying")
Fidget == Action("reaction", "none", "Fidget", None, None, 0, None)
Bogus == Action("legendary", "attack", "Bogus", None, "ranged", 0, None)

(***************************************************************************)
(* CombatEngine helpers.  Each returns the combatants after the call, the  *)
(* number of combat_log entries it appended and the kind of result.        *)
(***************************************************************************)
Outcome(combatants, log, result) ==
    [combatants |-> combatants, log |-> log, result |-> result]

\* variant of _can_take_action whose movement test lets 0 feet through
_can_take_action_zero_movement(c, action_type) ==
    CASE action_type = "action" -> ~c.has_taken_action
      [] action_type = "bonus_action" -> ~c.has_taken_bonus
      [] action_type = "reaction" -> ~c.has_taken_reaction
      [] action_type = "movement" -> c.movement_remaining >= 0
      [] OTHER -> TRUE

_can_take_action(c, action_type) ==
    CASE action_type = "action" -> ~c.has_taken_action
      [] action_type = "bonus_action" -> ~c.has_taken_bonus
      [] action_type = "reaction" -> ~c.has_taken_reaction
      [] action_type = "movement" -> c.movement_remaining > 0
      [] OTHER -> TRUE

_mark_action_used(c, action_type) ==
    CASE action_type = "action" -> [c EXCEPT !.has_taken_action = TRUE]
      [] action_type = "bonus_action" -> [c EXCEPT !.has_taken_bonus = TRUE]
      [] action_type = "reaction" -> [c EXCEPT !.has_taken_reaction = TRUE]
      [] OTHER -> c

\* the number of dice rolled for the damage of an attack whose d20 came up d20
\* variant: a critical hit keeps the dice count and the hit is rolled as usual
damage_dice_not_doubled(action, d20) == action.dmgN

damage_dice(action, d20) == IF d20 = 20 THEN action.dmgN * 2 ELSE action.dmgN

_process_attack(cs, aid, tid, action, d20, dice) ==
    IF tid = None \/ ~is_alive(cs[tid])
    THEN Outcome(cs, 0, "invalid_target")
    ELSE IF action.range = "melee" /\ cs[aid].position # "melee"
    THEN Outcome(cs, 0, "not_in_melee")
    ELSE LET total_attack == d20 + action.bonus
             is_crit == d20 = 20
             is_fumble == d20 = 1
         IN IF is_fumble THEN Outcome(cs, 2, "fumble")
            ELSE IF is_crit \/ (~is_fumble /\ total_attack >= cs[tid].ac)
            THEN LET damage_roll == roll(dice, action.dmgK)
                     total_damage == damage_roll + action.damage_bonus
                 IN Outcome([cs EXCEPT ![tid] = take_damage(cs[tid], total_damage)],
                            IF is_crit THEN 4 ELSE 3, "hit")
            ELSE Outcome(cs, 2, "miss")

\* variant: the cost is subtracted without the floor at 0
_process_movement_unclamped(cs, cid, action) ==
    IF action.position \notin Positions
    THEN Outcome(cs, 0, "raised")
    ELSE LET c == cs[cid]
             movement_used == IF action.position # c.position THEN 15 ELSE 0
         IN Outcome([cs EXCEPT ![cid] =
                        [c EXCEPT !.position = action.position,
                                  !.movement_remaining =
                                      c.movement_remaining - movement_used]],
                    1, "moved")

_process_movement(cs, cid, action) ==
    IF action.position \notin Positions
    THEN Outcome(cs, 0, "raised")
    ELSE LET c == cs[cid]
             movement_used == IF action.position # c.position THEN 15 ELSE 0
         IN Outcome([cs EXCEPT ![cid] =
                        [c EXCEPT !.position = action.position,
                                  !.movement_remaining =
                                      Max(0, c.movement_remaining - movement_used)]],
                    1, "moved")

_process_healing(cs, cid, action, dice) ==
    Outcome([cs EXCEPT ![cid] = heal(cs[cid], roll(dice, action.dmgK))], 2, "healed")

_process_special_ability(cs, cid, tid, action) ==
    LET c == cs[cid]
        can_sneak ==
            /\ tid # None
            /\ \/ cs[tid].position = "melee"
               \/ \E o \in DOMAIN cs :
                     o # cid /\ cs[o].position = "melee" /\ cs[o].type = "player"
    IN CASE action.name = "Second Wind" -> Outcome(cs, 0, "raised")
         [] action.name = "Action Surge" ->
                Outcome([cs EXCEPT ![cid].has_taken_action = FALSE], 1, "special")
         [] action.name = "Cunning Action" /\ action.sub_action = "dash" ->
                Outcome([cs EXCEPT ![cid].movement_remaining = @ + c.speed], 0, "special")
         [] action.name = "Cunning Action" /\ action.sub_action = "disengage" ->
                Outcome([cs EXCEPT ![cid].conditions = Append(@, "disengaging")], 0, "special")
         [] action.name = "Cunning Action" /\ action.sub_action = "hide" ->
                Outcome(cs, 0, "special")
         [] action.name = "Sneak Attack" /\ can_sneak -> Outcome(cs, 0, "raised")
         [] OTHER -> Outcome(cs, 0, "unknown_ability")

DeadMonsters(cs, turn_order) ==
    {i \in DOMAIN cs : /\ ~is_alive(cs[i])
                       /\ \E k \in 1..Len(turn_order) : turn_order[k] = i
                       /\ cs[i].type = "monster"}

_check_defeats(cs, turn_order) ==
    [i \in DOMAIN cs |->
        IF i \in DeadMonsters(cs, turn_order)
        THEN [cs[i] EXCEPT !.death_saves_failure = 3] ELSE cs[i]]

check_combat_end(cs) ==
    LET players_alive == \E i \in DOMAIN cs : cs[i].type = "player" /\ is_alive(cs[i])
        monsters_alive == \E i \in DOMAIN cs : cs[i].type = "monster" /\ is_alive(cs[i])
    IN IF ~players_alive THEN "defeat"
       ELSE IF ~monsters_alive THEN "victory"
       ELSE None

\* get_combat_state raises on a cursor outside turn_order; otherwise its
\* check_combat_end call clears is_active once an outcome is reported
get_combat_state_raises(e) ==
    e.turn_order # <<>> /\ e.current_turn >= Len(e.turn_order)

get_combat_state(e) ==
    IF get_combat_state_raises(e) THEN e
    ELSE [e EXCEPT !.is_active = IF check_combat_end(e.combatants) # None
                                 THEN FALSE ELSE @]

process_action(e, cid, action, tid, d20, dice) ==
    IF cid \notin DOMAIN e.combatants
    THEN [engine |-> e, result |-> "invalid_combatant"]
    ELSE IF action.type \notin ActionTypes
    THEN [engine |-> e, result |-> "raised"]
    ELSE IF ~_can_take_action(e.combatants[cid], action.type)
    THEN [engine |-> e, result |-> "already_used"]
    ELSE LET cs == e.combatants
             target == IF tid \in DOMAIN cs THEN tid ELSE None
             o == CASE action.kind = "attack" ->
                          _process_attack(cs, cid, target, action, d20, dice)
                    [] action.kind = "heal" -> _process_healing(cs, cid, action, dice)
                    [] action.kind = "special" ->
                          _process_special_ability(cs, cid, target, action)
                    [] action.kind = "none" /\ action.type = "movement" ->
                          _process_movement(cs, cid, action)
                    [] OTHER -> Outcome(cs, 0, "unknown_action")
         IN IF o.result = "raised" THEN [engine |-> e, result |-> "raised"]
            ELSE LET marked == [o.combatants EXCEPT
                                   ![cid] = _mark_action_used(@, action.type)]
                 IN [engine |->
                        [e EXCEPT !.combatants = _check_defeats(marked, e.turn_order),
                                  !.combat_log = @ + o.log
                                      + Cardinality(DeadMonsters(marked, e.turn_order))],
                     result |-> o.result]

(***************************************************************************)
(* start_combat: initiative and the turn order.  sorted(..., reverse=True) *)
(* is stable, so equal keys keep the dict's insertion order.               *)
(***************************************************************************)
IndexOf(seq, x) == CHOOSE k \in 1..Len(seq) : seq[k] = x

\* sorted(order, key=lambda x: (k1[x], k2[x]), reverse=True)
sorted_reverse(order, k1, k2) ==
    LET ids == {order[k] : k \in 1..Len(order)}
        greater(y, x) == k1[y] > k1[x] \/ (k1[y] = k1[x] /\ k2[y] > k2[x])
        equal(y, x) == k1[y] = k1[x] /\ k2[y] = k2[x]
        rank(x) ==
            Cardinality({y \in ids : greater(y, x)})
          + Cardinality({y \in ids : equal(y, x) /\ IndexOf(order, y) < IndexOf(order, x)})
    IN [k \in 1..Len(order) |-> CHOOSE x \in ids : rank(x) = k - 1]

start_combat(e, rolls) ==
    LET cs == [i \in Ids |->
                  [Roster[i] EXCEPT !.initiative = rolls[i] + Roster[i].initiative_bonus]]
    IN get_combat_state(
         [combatants |-> cs,
          turn_order |-> sorted_reverse(DictOrder, [i \in Ids |-> cs[i].initiative],
                                       [i \in Ids |-> cs[i].dexterity]),
          current_turn |-> 0,
          round_number |-> 1,
          combat_log |-> Cardinality(Ids) + 2,
          is_active |-> TRUE])

(***************************************************************************)
(* end_turn and the death save it makes for the combatant whose turn ends. *)
(***************************************************************************)
RemoveFirst(seq, x) ==
    IF \E k \in 1..Len(seq) : seq[k] = x
    THEN LET k == CHOOSE j \in 1..Len(seq) :
                      seq[j] = x /\ \A h \in 1..(j - 1) : seq[h] # x
         IN [j \in 1..(Len(seq) - 1) |-> IF j < k THEN seq[j] ELSE seq[j + 1]]
    ELSE seq

\* variant of _process_death_save that counts a natural 1 as one failure
_process_death_save_single_failure(c, d20) ==
    IF c.death_saves_failure >= 3 THEN c
    ELSE IF d20 = 20
    THEN [heal(c, 1) EXCEPT !.death_saves_success = 0, !.death_saves_failure = 0]
    ELSE IF d20 >= 10 THEN [c EXCEPT !.death_saves_success = @ + 1]
    ELSE [c EXCEPT !.death_saves_failure = @ + 1]

_process_death_save(c, d20) ==
    IF c.death_saves_failure >= 3 THEN c
    ELSE IF d20 = 20
    THEN [heal(c, 1) EXCEPT !.death_saves_success = 0, !.death_saves_failure = 0]
    ELSE IF d20 = 1 THEN [c EXCEPT !.death_saves_failure = @ + 2]
    ELSE IF d20 >= 10 THEN [c EXCEPT !.death_saves_success = @ + 1]
    ELSE [c EXCEPT !.death_saves_failure = @ + 1]

\* log entries a death save appends: the verdict, and "is stabilized!"
death_save_log(c, d20) ==
    IF c.death_saves_failure < 3 /\ d20 \in 10..19 /\ c.death_saves_success + 1 >= 3
    THEN 2 ELSE 1

rolls_death_save(c) ==
    c.current_hp = 0 /\ c.type = "player" /\ c.death_saves_failure < 3

_process_end_of_turn_effects(c, d20) ==
    LET cleared == [c EXCEPT !.conditions = RemoveFirst(@, "disengaging")]
    IN IF c.current_hp = 0 /\ c.type = "player"
       THEN _process_death_save(cleared, d20) ELSE cleared

\* the cursor after "skip dead combatants": the first living one at or
\* after position ct, or len(turn_order) when there is none
skip_dead(cs, turn_order, ct) ==
    IF \E k \in ct..(Len(turn_order) - 1) : is_alive(cs[turn_order[k + 1]])
    THEN CHOOSE k \in ct..(Len(turn_order) - 1) :
            /\ is_alive(cs[turn_order[k + 1]])
            /\ \A h \in ct..(k - 1) : ~is_alive(cs[turn_order[h + 1]])
    ELSE Max(ct, Len(turn_order))

\* variant: the round counter advances but the per-round flags are kept
end_turn_keeping_flags(e, d20) ==
    LET cur == e.turn_order[e.current_turn + 1]
        c == e.combatants[cur]
        cs == [e.combatants EXCEPT ![cur] = _process_end_of_turn_effects(c, d20)]
        saved == IF c.current_hp = 0 /\ c.type = "player"
                 THEN death_save_log(c, d20) ELSE 0
        wraps == e.current_turn + 1 >= Len(e.turn_order)
        ct == IF wraps THEN 0 ELSE e.current_turn + 1
    IN get_combat_state(
         [e EXCEPT !.combatants = cs,
                   !.current_turn = skip_dead(cs, e.turn_order, ct),
                   !.round_number = IF wraps THEN @ + 1 ELSE @,
                   !.combat_log = @ + saved + (IF wraps THEN 1 ELSE 0)])

end_turn(e, d20) ==
    LET cur == e.turn_order[e.current_turn + 1]
        c == e.combatants[cur]
        after == [e.combatants EXCEPT ![cur] = _process_end_of_turn_effects(c, d20)]
        saved == IF c.current_hp = 0 /\ c.type = "player"
                 THEN death_save_log(c, d20) ELSE 0
        wraps == e.current_turn + 1 >= Len(e.turn_order)
        reset == [i \in DOMAIN after |->
                     [after[i] EXCEPT !.has_taken_action = FALSE,
                                      !.has_taken_bonus = FALSE,
                                      !.has_taken_reaction = FALSE,
                                      !.movement_remaining = after[i].speed]]
        cs == IF wraps THEN reset ELSE after
        ct == IF wraps THEN 0 ELSE e.current_turn + 1
    IN get_combat_state(
         [e EXCEPT !.combatants = cs,
                   !.current_turn = skip_dead(cs, e.turn_order, ct),
                   !.round_number = IF wraps THEN @ + 1 ELSE @,
                   !.combat_log = @ + saved + (IF wraps THEN 1 ELSE 0)])

\* the combatants the skip loop of end_turn passes over
skipped_by_end_turn(e, d20) ==
    LET n == end_turn(e, d20)
        ct == IF e.current_turn + 1 >= Len(e.turn_order) THEN 0 ELSE e.current_turn + 1
    IN {e.turn_order[k + 1] : k \in ct..(n.current_turn - 1)}

(***************************************************************************)
(* The calls a client makes, and what the last call returned.              *)
(***************************************************************************)
Ret(op, actor, result) ==
    [op |-> op, actor |-> actor, result |-> result, type |-> None,
     rolled |-> None, skipped |-> {}]

Within(e) ==
    /\ e.round_number <= MaxRound
    /\ e.combat_log <= MaxLog
    /\ \A i \in DOMAIN e.combatants :
          /\ e.combatants[i].current_hp <= HpCap
          /\ e.combatants[i].death_saves_success <= SaveCap
          /\ e.combatants[i].movement_remaining <= MoveCap
          /\ Len(e.combatants[i].conditions) <= 1

\* the descriptors submitted while a fight is played out
FightCatalog == {Shoot, Curse, Potion}

\* the descriptors that exercise the action economy, movement and abilities
EconomyCatalog ==
    {Stab, SecondWind, ActionSurge, CunningDash, CunningDisengage, CunningHide,
     CunningOther, SneakAttack, Mystery, MoveMelee, MoveRanged, MoveNowhere,
     Fidget, Bogus}

\* the d20 results and dice sums that a call can consume
AttackRolls(e, cid, action, tid) ==
    IF /\ cid \in DOMAIN e.combatants
       /\ action.kind = "attack"
       /\ action.type \in ActionTypes
       /\ tid \in DOMAIN e.combatants
    THEN AttackD20 ELSE {0}

DiceRolls(action, d20) ==
    IF action.kind \in {"attack", "heal"}
    THEN DiceSums(damage_dice(action, d20), action.dmgM) ELSE {0}

NewEngine ==
    [combatants |-> <<>>, turn_order |-> <<>>, current_turn |-> 0,
     round_number |-> 0, combat_log |-> 0, is_active |-> FALSE]

NewService ==
    [combatants |-> <<>>, turn_order |-> <<>>, current_round |-> 1,
     current_turn |-> 0, state |-> "not_started", combat_log |-> 0]

NewWeb ==
    [participants |-> <<>>, encounter |-> None, encounter_is_active |-> FALSE,
     turn_order |-> <<>>,
     current_round |-> 0, current_turn |-> 0, combat_log |-> 0]

\* no encounter has been started yet in any of the three implementations
Idle ==
    /\ engine = NewEngine
    /\ service = NewService
    /\ web = NewWeb
    /\ probe = None

Init ==
    /\ engine = NewEngine
    /\ service = NewService
    /\ web = NewWeb
    /\ probe = None
    /\ ret = Ret("init", None, None)

StartCombat ==
    /\ Idle
    /\ \E rolls \in InitRolls :
          engine' = start_combat(engine, rolls)
    /\ ret' = Ret("start_combat", None, "state")
    /\ UNCHANGED <<service, web, probe>>

ProcessAction(cid, action, tid) ==
    /\ engine.round_number > 0
    /\ \E d20 \in AttackRolls(engine, cid, action, tid) :
       \E dice \in DiceRolls(action, d20) :
       \E r \in {process_action(engine, cid, action, tid, d20, dice)} :
             /\ Within(r.engine)
             /\ engine' = r.engine
             /\ ret' = [Ret("process_action", cid, r.result) EXCEPT !.type = action.type]
    /\ UNCHANGED <<service, web, probe>>

EndTurn ==
    /\ engine.round_number > 0
    /\ IF engine.current_turn >= Len(engine.turn_order)
       THEN /\ engine' = engine
            /\ ret' = Ret("end_turn", None, "raised")
       ELSE LET cur == engine.turn_order[engine.current_turn + 1] IN
            \E d20 \in (IF rolls_death_save(engine.combatants[cur]) THEN D20 ELSE {0}) :
            \E n \in {end_turn(engine, d20)} :
                 /\ Within(n)
                 /\ engine' = n
                 /\ ret' = [op |-> "end_turn", actor |-> cur, type |-> None,
                            result |-> IF get_combat_state_raises(n)
                                       THEN "raised" ELSE "state",
                            rolled |-> IF rolls_death_save(engine.combatants[cur])
                                       THEN cur ELSE None,
                            skipped |-> skipped_by_end_turn(engine, d20)]
    /\ UNCHANGED <<service, web, probe>>

NextFight ==
    \/ StartCombat
    \/ \E cid \in Ids, action \in FightCatalog, tid \in Ids \cup {None} :
          /\ tid # cid
          /\ action.kind = "heal" => tid = None
          /\ ProcessAction(cid, action, tid)
    \/ EndTurn

NextEconomy ==
    \/ StartCombat
    \/ \E cid \in {PlayerId, UnknownId}, action \in EconomyCatalog,
          tid \in MonsterIds \cup {UnknownId, None} :
          /\ cid = UnknownId => action = Stab
          /\ tid # None => action \in {Stab, SneakAttack}
          /\ ProcessAction(cid, action, tid)
    \/ EndTurn

\* the CombatEngine alone, playing out a fight
SpecEngine == Init /\ [][NextFight]_vars

\* the CombatEngine alone, exercising the action economy
SpecEconomy == Init /\ [][NextEconomy]_vars

(***************************************************************************)
(* _process_death_save applied to a dying player-side combatant, from      *)
(* every pair of counters; the rolls are recorded when the counters start  *)
(* fresh.                                                                  *)
(***************************************************************************)
Dying(successes, failures) ==
    [Combatant(PlayerId, "player", 3, 0, 12, 1, 14) EXCEPT
        !.death_saves_success = successes, !.death_saves_failure = failures]

InitDeathSave ==
    /\ engine = NewEngine
    /\ service = NewService
    /\ web = NewWeb
    /\ \E successes \in 0..2, failures \in 0..3 :
          probe = [before |-> Dying(successes, failures),
                   combatant |-> Dying(successes, failures),
                   d20 |-> 0, count |-> 0, rolls |-> <<>>,
                   fresh |-> successes = 0 /\ failures = 0]
    /\ ret = Ret("init", None, None)

\* _process_end_of_turn_effects calls it for a player at 0 HP; the d20 is
\* only rolled below three failures
ProcessDeathSave ==
    /\ probe.combatant.current_hp = 0
    /\ probe.count < MaxRolls
    /\ \E d20 \in (IF probe.combatant.death_saves_failure >= 3 THEN {0} ELSE D20) :
          probe' = [probe EXCEPT
                       !.before = probe.combatant,
                       !.combatant = _process_death_save(probe.combatant, d20),
                       !.d20 = d20,
                       !.count = @ + 1,
                       !.rolls = IF probe.fresh THEN Append(@, d20) ELSE @]
    /\ ret' = Ret("_process_death_save", PlayerId, None)
    /\ UNCHANGED <<engine, service, web>>

SpecDeathSave == InitDeathSave /\ [][ProcessDeathSave]_vars

\* ------------------------------------------------------------------
\* Combatant.take_damage applied to combatants of every max_hp, current_hp
\* and temp_hp of the ranges below, with every non-negative damage.
Struck(max_hp, current_hp, temp_hp) ==
    [Combatant(PlayerId, "player", max_hp, current_hp, 12, 1, 14) EXCEPT
        !.temp_hp = temp_hp]

InitTakeDamage ==
    /\ engine = NewEngine
    /\ service = NewService
    /\ web = NewWeb
    /\ \E max_hp \in {1, 3, MaxHp} :
       \E current_hp \in 0..max_hp, temp_hp \in 0..TempCap :
          probe = [before |-> Struck(max_hp, current_hp, temp_hp),
                   combatant |-> Struck(max_hp, current_hp, temp_hp),
                   damage |-> 0, count |-> 0]
    /\ ret = Ret("init", None, None)

TakeDamage ==
    /\ probe.count < MaxHits
    /\ \E damage \in 0..DamageCap :
          probe' = [before |-> probe.combatant,
                    combatant |-> take_damage(probe.combatant, damage),
                    damage |-> damage,
                    count |-> probe.count + 1]
    /\ ret' = Ret("take_damage", PlayerId, None)
    /\ UNCHANGED <<engine, service, web>>

SpecTakeDamage == InitTakeDamage /\ [][TakeDamage]_vars


(***************************************************************************)
(* CombatService (services/combat.py): the desktop combat service.         *)
(***************************************************************************)
CharacterIds == {"c1"}
SvcMonsterIds == {"monster_0", "monster_1"}
SvcIds == CharacterIds \cup SvcMonsterIds
SvcListOrder == <<"c1", "monster_0", "monster_1">>
\* initiative d20 results tried at initialize_combat
SvcInitRolls ==
    {[i \in SvcIds |-> IF i = "c1" THEN 12 ELSE 8],
     [i \in SvcIds |-> IF i = "c1" THEN 7 ELSE 8]}

\* the Character / Monster records behind the combatants
SvcEntity ==
    [i \in SvcIds |->
        CASE i = "c1" -> [type |-> "character", hit_points |-> 3, armor_class |-> 12,
                          dexterity_modifier |-> 2, attack_bonus |-> 2]
          [] i = "monster_0" -> [type |-> "monster", hit_points |-> 2, armor_class |-> 11,
                                 dexterity_modifier |-> 1, attack_bonus |-> 1]
          [] OTHER -> [type |-> "monster", hit_points |-> 1, armor_class |-> 11,
                       dexterity_modifier |-> 3, attack_bonus |-> 1]]

\* Combatant.__post_init__: is_alive keeps its default
SvcCombatant(i) ==
    [id |-> i, type |-> SvcEntity[i].type, initiative |-> 0,
     current_hp |-> SvcEntity[i].hit_points, max_hp |-> SvcEntity[i].hit_points,
     armor_class |-> SvcEntity[i].armor_class, is_alive |-> TRUE]

svc_take_damage(c, damage) ==
    LET hp == Max(0, c.current_hp - damage)
    IN [c EXCEPT !.current_hp = hp, !.is_alive = hp > 0]

\* weapon_info dicts; damage_dice is "NdM+K" (form "dice") or a bare number
\* (form "digit"); NoWeapon stands for weapon_info=None
Weapon(attack_bonus, form, n, m, k) ==
    [attack_bonus |-> attack_bonus, form |-> form, n |-> n, m |-> m, k |-> k]
NoWeapon == Weapon(0, "default", 0, 0, 0)
UnarmedStrike == Weapon(2, "digit", 1, 0, 0)
Shortsword == Weapon(2, "dice", 1, 2, 0)
CursedBlade == Weapon(2, "dice", 1, 2, -3)
\* characters attack with a chosen weapon, monsters with weapon_info=None
Weapons(aid) ==
    IF aid \in CharacterIds THEN {UnarmedStrike, Shortsword, CursedBlade}
    ELSE {NoWeapon}

\* _get_attack_bonus / _get_weapon_damage when no weapon_info is given
svc_weapon(s, aid, weapon) ==
    IF weapon.form = "default"
    THEN Weapon(SvcEntity[aid].attack_bonus, "dice", 1,
                IF s.combatants[aid].type = "character" THEN 4 ELSE 2, 0)
    ELSE weapon

\* variant of _check_combat_end that tests the monster side first
_check_combat_end_monsters_first(s) ==
    IF ~\E i \in DOMAIN s.combatants :
            s.combatants[i].type = "monster" /\ s.combatants[i].is_alive
    THEN [s EXCEPT !.state = "player_victory", !.combat_log = @ + 1]
    ELSE IF ~\E i \in DOMAIN s.combatants :
            s.combatants[i].type = "character" /\ s.combatants[i].is_alive
    THEN [s EXCEPT !.state = "player_defeat", !.combat_log = @ + 1]
    ELSE s

_check_combat_end(s) ==
    LET alive_characters ==
            {i \in DOMAIN s.combatants :
                s.combatants[i].type = "character" /\ s.combatants[i].is_alive}
        alive_monsters ==
            {i \in DOMAIN s.combatants :
                s.combatants[i].type = "monster" /\ s.combatants[i].is_alive}
    IN IF alive_characters = {}
       THEN [s EXCEPT !.state = "player_defeat", !.combat_log = @ + 1]
       ELSE IF alive_monsters = {}
       THEN [s EXCEPT !.state = "player_victory", !.combat_log = @ + 1]
       ELSE s

combat_ended(s) ==
    LET cs == s.combatants
    IN \/ ~\E i \in DOMAIN cs : cs[i].type = "character" /\ cs[i].is_alive
       \/ ~\E i \in DOMAIN cs : cs[i].type = "monster" /\ cs[i].is_alive

initialize_combat(rolls) ==
    LET cs == [i \in SvcIds |->
                  [SvcCombatant(i) EXCEPT
                      !.initiative = rolls[i] + SvcEntity[i].dexterity_modifier]]
    IN [combatants |-> cs,
        turn_order |-> sorted_reverse(SvcListOrder,
                          [i \in SvcIds |-> cs[i].initiative],
                          [i \in SvcIds |-> SvcEntity[i].dexterity_modifier]),
        current_round |-> 1,
        current_turn |-> 0,
        state |-> "in_progress",
        combat_log |-> Cardinality(SvcIds) + 2]

attack_raises(s, aid, tid) ==
    \/ aid \notin DOMAIN s.combatants
    \/ tid \notin DOMAIN s.combatants
    \/ ~s.combatants[aid].is_alive
    \/ ~s.combatants[tid].is_alive

\* the result of an attack that did not raise
attack_result(s, aid, tid, weapon, d20) ==
    LET w == svc_weapon(s, aid, weapon)
    IN IF d20 = 1 THEN "fumble"
       ELSE IF d20 = 20 \/ d20 + w.attack_bonus >= s.combatants[tid].armor_class
       THEN "hit" ELSE "miss"

attack(s, aid, tid, weapon, d20, dice) ==
    LET w == svc_weapon(s, aid, weapon)
        is_critical == d20 = 20
        is_fumble == d20 = 1
        hits == is_critical \/ (~is_fumble /\ d20 + w.attack_bonus >= s.combatants[tid].armor_class)
        damage_dealt == IF w.form = "dice" THEN dice + w.k ELSE w.n
        cs == IF hits /\ ~is_fumble
              THEN [s.combatants EXCEPT ![tid] = svc_take_damage(@, damage_dealt)]
              ELSE s.combatants
    IN _check_combat_end([s EXCEPT !.combatants = cs, !.combat_log = @ + 1])

RECURSIVE next_turn(_)
next_turn(s) ==
    IF s.state # "in_progress" THEN [service |-> s, result |-> None]
    ELSE LET ct == (s.current_turn + 1) % Len(s.turn_order)
             s1 == [s EXCEPT !.current_turn = ct,
                             !.current_round = IF ct = 0 THEN @ + 1 ELSE @,
                             !.combat_log = IF ct = 0 THEN @ + 1 ELSE @]
             current == s1.combatants[s1.turn_order[ct + 1]]
         IN IF current.is_alive
            THEN [service |-> [s1 EXCEPT !.combat_log = @ + 1], result |-> current.id]
            ELSE LET order == RemoveFirst(s1.turn_order, current.id)
                     s2 == [s1 EXCEPT !.turn_order = order,
                                      !.current_turn = IF ct >= Len(order) THEN 0 ELSE ct]
                 IN IF combat_ended(s2)
                    THEN [service |-> _check_combat_end(s2), result |-> None]
                    ELSE next_turn(s2)

SvcWithin(s) ==
    /\ s.current_round <= MaxRound
    /\ s.combat_log <= MaxLog
    /\ \A i \in DOMAIN s.combatants : s.combatants[i].current_hp <= HpCap

\* the number of dice handed to dice.roll: int(num_dice)*2 on a critical hit
doubled_dice(w, d20) == IF d20 = 20 THEN w.n * 2 ELSE w.n

SvcDiceRolls(s, aid, weapon, d20) ==
    LET w == svc_weapon(s, aid, weapon)
    IN IF w.form = "dice"
       THEN DiceSums(doubled_dice(w, d20), w.m) ELSE {0}

InitializeCombat ==
    /\ Idle
    /\ \E rolls \in SvcInitRolls : service' = initialize_combat(rolls)
    /\ ret' = Ret("initialize_combat", None, None)
    /\ UNCHANGED <<engine, web, probe>>

Attack(aid, tid, weapon) ==
    /\ service.state # "not_started"
    /\ IF attack_raises(service, aid, tid)
       THEN /\ service' = service
            /\ ret' = Ret("attack", aid, "raised")
       ELSE \E d20 \in AttackD20 :
            \E dice \in SvcDiceRolls(service, aid, weapon, d20) :
            \E n \in {attack(service, aid, tid, weapon, d20, dice)} :
               /\ SvcWithin(n)
               /\ service' = n
               /\ ret' = Ret("attack", aid, attack_result(service, aid, tid, weapon, d20))
    /\ UNCHANGED <<engine, web, probe>>

NextTurn ==
    /\ service.state # "not_started"
    /\ \E r \in {next_turn(service)} :
          /\ SvcWithin(r.service)
          /\ service' = r.service
          /\ ret' = Ret("next_turn", None, r.result)
    /\ UNCHANGED <<engine, web, probe>>

NextService ==
    \/ InitializeCombat
    \/ \E aid \in SvcIds \cup {UnknownId}, tid \in SvcIds \cup {UnknownId} :
       \E weapon \in Weapons(aid) : Attack(aid, tid, weapon)
    \/ NextTurn


(***************************************************************************)
(* Web router (backend/routers/combat.py): the encounter, its participants *)
(* and the combat-state row, with the turn handling the handlers do        *)
(* inline.                                                                 *)
(***************************************************************************)
CharacterEntity == "hero"
WebMonsters == <<"goblin", "orc">>
WebIds == {"pc", "pm0", "pm1"}
WebListOrder == <<"pc", "pm0", "pm1">>
WebInitRolls ==
    {[i \in WebIds |-> IF i = "pc" THEN 12 ELSE 8],
     [i \in WebIds |-> IF i = "pm0" THEN 12 ELSE 8]}

WebDexterity == [i \in WebIds |-> IF i = "pc" THEN 14 ELSE IF i = "pm0" THEN 12 ELSE 16]

Participant(i, initiative) ==
    [character_id |-> IF i = "pc" THEN CharacterEntity ELSE None,
     monster_id |-> IF i = "pc" THEN None
                    ELSE IF i = "pm0" THEN WebMonsters[1] ELSE WebMonsters[2],
     initiative |-> initiative,
     current_hp |-> 2, max_hp |-> 2, is_active |-> TRUE]

\* start_combat of the router: the tie-break key is the character's modifier
\* for the character and the first monster's modifier for every monster
web_start_combat(rolls) ==
    LET ps == [i \in WebIds |->
                  Participant(i, rolls[i] + ability_modifier(WebDexterity[i]))]
    IN [participants |-> ps,
        encounter |-> "enc",
        encounter_is_active |-> TRUE,
        turn_order |-> sorted_reverse(WebListOrder,
                          [i \in WebIds |-> ps[i].initiative],
                          [i \in WebIds |->
                              IF ps[i].character_id # None
                              THEN ability_modifier(WebDexterity["pc"])
                              ELSE ability_modifier(WebDexterity["pm0"])]),
        current_round |-> 1,
        current_turn |-> 0,
        combat_log |-> 1]

\* the engine call of the handler: the action resolver applies the damage of
\* the action to its target and reports its log lines
resolve_action(ps, tid, damage) ==
    IF tid \in DOMAIN ps /\ ps[tid].current_hp > 0
    THEN [ps EXCEPT ![tid].current_hp = Max(0, @ - damage)]
    ELSE ps

not_your_turn(w, actor_id) ==
    LET cur == w.participants[w.turn_order[w.current_turn + 1]]
    IN IF cur.character_id # None THEN cur.character_id # actor_id
       ELSE cur.monster_id # None /\ cur.monster_id # actor_id

\* process_combat_action once the request passed the 404 / 400 checks
process_combat_action(w, tid, damage) ==
    LET hit == resolve_action(w.participants, tid, damage)
        active_participants == {i \in DOMAIN hit : hit[i].is_active}
        defeated == {i \in active_participants : hit[i].current_hp <= 0}
        ps == [i \in DOMAIN hit |->
                  IF i \in defeated THEN [hit[i] EXCEPT !.is_active = FALSE] ELSE hit[i]]
        character_alive ==
            \E i \in active_participants :
                ps[i].character_id # None /\ ps[i].is_active /\ ps[i].current_hp > 0
        monsters_alive ==
            \E i \in active_participants :
                ps[i].monster_id # None /\ ps[i].is_active /\ ps[i].current_hp > 0
        combat_is_over == ~character_alive \/ ~monsters_alive
        turn == (w.current_turn + 1) % Len(w.turn_order)
    IN [web |->
          [w EXCEPT
             !.participants = ps,
             !.encounter_is_active = IF combat_is_over THEN FALSE ELSE @,
             !.current_turn = IF combat_is_over THEN @ ELSE turn,
             !.current_round = IF ~combat_is_over /\ turn = 0 THEN @ + 1 ELSE @,
             !.combat_log = @ + 1 + Cardinality(defeated)
                              + (IF combat_is_over \/ turn = 0 THEN 1 ELSE 0)],
        result |-> IF ~character_alive THEN "defeat"
                   ELSE IF ~monsters_alive THEN "victory" ELSE "continue"]

skip_turn(w) ==
    LET turn == (w.current_turn + 1) % Len(w.turn_order)
    IN [w EXCEPT !.current_turn = turn,
                 !.current_round = IF turn = 0 THEN @ + 1 ELSE @,
                 !.combat_log = @ + 1]

WebWithin(w) == w.current_round <= MaxRound /\ w.combat_log <= MaxLog

WebActors == {CharacterEntity, WebMonsters[1], WebMonsters[2], UnknownId}
WebDamage == 0..2

WebStartCombat ==
    /\ Idle
    /\ \E rolls \in WebInitRolls : web' = web_start_combat(rolls)
    /\ ret' = Ret("web_start_combat", None, None)
    /\ UNCHANGED <<engine, service, probe>>

ProcessCombatAction(actor_id, tid, damage) ==
    /\ web.encounter # None
    /\ IF ~web.encounter_is_active
       THEN web' = web /\ ret' = Ret("process_combat_action", actor_id, "404")
       ELSE IF not_your_turn(web, actor_id)
       THEN web' = web /\ ret' = Ret("process_combat_action", actor_id, "400")
       ELSE \E r \in {process_combat_action(web, tid, damage)} :
               /\ WebWithin(r.web)
               /\ web' = r.web
               /\ ret' = Ret("process_combat_action", actor_id, r.result)
    /\ UNCHANGED <<engine, service, probe>>

SkipTurn(actor_id) ==
    /\ web.encounter # None
    /\ IF ~web.encounter_is_active
       THEN web' = web /\ ret' = Ret("skip_turn", actor_id, "404")
       ELSE /\ WebWithin(skip_turn(web))
            /\ web' = skip_turn(web)
            /\ ret' = Ret("skip_turn", actor_id, "skipped")
    /\ UNCHANGED <<engine, service, probe>>

NextRouter ==
    \/ WebStartCombat
    \/ \E actor_id \in WebActors, tid \in WebIds, damage \in WebDamage :
          ProcessCombatAction(actor_id, tid, damage)
    \/ \E actor_id \in WebActors : SkipTurn(actor_id)

\* the desktop service and the web router side by side
SpecTurns == Init /\ [][NextService \/ NextRouter]_vars

\* the three implementations side by side
Next == NextFight \/ NextService \/ NextRouter

Spec == Init /\ [][Next]_vars

\* ------------------------------------------------------------------
\* One attack resolved by each implementation, for every attack bonus, armor
\* class, d20 result and damage notation of the ranges below.

\* damage notations: n dice of m sides with modifier k written in the
\* notation ("1d2", "1d2+1", "2d2-1", "1d2-3") or given apart (extra)
Notations ==
    {[n |-> 1, m |-> 2, k |-> 0, extra |-> 0],
     [n |-> 1, m |-> 2, k |-> 1, extra |-> 0],
     [n |-> 2, m |-> 2, k |-> -1, extra |-> 0],
     [n |-> 1, m |-> 2, k |-> -3, extra |-> 0],
     [n |-> 1, m |-> 2, k |-> 0, extra |-> 2]}

\* DiceRoller.attack_roll of the desktop application: (total, is_crit, is_fumble)
attack_roll(bonus, d20) ==
    [total |-> d20 + bonus, is_crit |-> d20 = 20, is_fumble |-> d20 = 1]

\* CombatScreen._attack_action on the first living monster: the hit branch is
\* chosen by the total alone; dice is what the one or two roll("1d8") show
_attack_action(hp, target_ac, attack_bonus, strength_modifier, d20, dice) ==
    LET r == attack_roll(attack_bonus, d20)
    IN IF r.total >= target_ac
       THEN LET damage == dice + strength_modifier
            IN [hp |-> Max(0, hp - damage), hit |-> TRUE, damage |-> damage,
                message |-> IF r.is_crit THEN "critical" ELSE "hit"]
       ELSE [hp |-> hp, hit |-> FALSE, damage |-> 0,
             message |-> IF r.is_fumble THEN "fumble" ELSE "miss"]

\* CombatScreen._monster_turn of a living monster against a living character
_monster_turn(hp, target_ac, attack_bonus, strength_modifier, has_actions, d20, dice) ==
    LET r == attack_roll(attack_bonus, d20)
    IN IF r.total >= target_ac
       THEN IF has_actions
            THEN LET damage == dice + strength_modifier
                 IN [hp |-> Max(0, hp - damage), hit |-> TRUE, damage |-> damage,
                     message |-> IF r.is_crit THEN "critical" ELSE "hit"]
            ELSE [hp |-> hp, hit |-> TRUE, damage |-> 0, message |-> None]
       ELSE [hp |-> hp, hit |-> FALSE, damage |-> 0,
             message |-> IF r.is_fumble THEN "fumble" ELSE "miss"]

\* the dice sums the screen can add up: one die, a second one on a critical
ScreenDice(bonus, d20, m) ==
    DiceSums(IF attack_roll(bonus, d20).is_crit THEN 2 ELSE 1, m)

Swing(impl, d20, nt, sum, count, hit, crit, damage) ==
    [impl |-> impl, bonus |-> probe.bonus, ac |-> probe.ac, d20 |-> d20,
     notation |-> nt, sum |-> sum, count |-> count, hit |-> hit, crit |-> crit,
     damage |-> damage]

InitAttack ==
    /\ engine = NewEngine
    /\ service = NewService
    /\ web = NewWeb
    /\ \E bonus \in 0..BonusCap, ac \in {10, 16, AcCap} :
          probe = [impl |-> None, bonus |-> bonus, ac |-> ac, d20 |-> 0,
                   notation |-> [n |-> 0, m |-> 0, k |-> 0, extra |-> 0],
                   sum |-> 0, count |-> 0, hit |-> FALSE, crit |-> FALSE,
                   damage |-> 0]
    /\ ret = Ret("init", None, None)

\* CombatEngine._process_attack of p1 against m1
EngineAttack ==
    /\ probe.impl = None
    /\ \E nt \in Notations, d20 \in D20 :
       LET action == [Shoot EXCEPT !.bonus = probe.bonus, !.dmgN = nt.n,
                                   !.dmgM = nt.m, !.dmgK = nt.k,
                                   !.damage_bonus = nt.extra]
           cs == [Roster EXCEPT !["m1"].ac = probe.ac,
                                !["m1"].max_hp = TargetHp,
                                !["m1"].current_hp = TargetHp]
       IN \E dice \in DiceSums(damage_dice(action, d20), nt.m) :
          \E o \in {_process_attack(cs, "p1", "m1", action, d20, dice)} :
             probe' = Swing("engine", d20, nt,
                            IF o.result = "hit" THEN dice ELSE 0,
                            IF o.result = "hit" THEN damage_dice(action, d20) ELSE 0,
                            o.result = "hit", o.log = 4,
                            TargetHp - o.combatants["m1"].current_hp)
    /\ ret' = Ret("_process_attack", "p1", None)
    /\ UNCHANGED <<engine, service, web>>

\* CombatService.attack of c1 against monster_0 with a chosen weapon
ServiceAttack ==
    /\ probe.impl = None
    /\ \E nt \in {x \in Notations : x.extra = 0}, d20 \in D20, rolls \in SvcInitRolls :
       LET weapon == Weapon(probe.bonus, "dice", nt.n, nt.m, nt.k)
           s == [initialize_combat(rolls) EXCEPT
                    !.combatants["monster_0"].armor_class = probe.ac,
                    !.combatants["monster_0"].max_hp = TargetHp,
                    !.combatants["monster_0"].current_hp = TargetHp]
           r == attack_result(s, "c1", "monster_0", weapon, d20)
       IN \E dice \in SvcDiceRolls(s, "c1", weapon, d20) :
          \E n \in {attack(s, "c1", "monster_0", weapon, d20, dice)} :
             probe' = Swing("service", d20, nt,
                            IF r = "hit" THEN dice ELSE 0,
                            IF r = "hit" THEN doubled_dice(weapon, d20) ELSE 0,
                            r = "hit", r = "hit" /\ d20 = 20,
                            TargetHp - n.combatants["monster_0"].current_hp)
    /\ ret' = Ret("attack", "c1", None)
    /\ UNCHANGED <<engine, service, web>>

\* CombatScreen._attack_action: 1d8 weapon
ScreenAttack ==
    /\ probe.impl = None
    /\ \E d20 \in D20, strength_modifier \in {0, 3} :
       \E dice \in ScreenDice(probe.bonus, d20, 8) :
       \E o \in {_attack_action(TargetHp, probe.ac, probe.bonus,
                                  strength_modifier, d20, dice)} :
             probe' = Swing("screen", d20,
                            [n |-> 1, m |-> 8, k |-> 0, extra |-> strength_modifier],
                            IF o.hit THEN dice ELSE 0, 0,
                            o.hit, o.message = "critical", o.damage)
    /\ ret' = Ret("_attack_action", None, None)
    /\ UNCHANGED <<engine, service, web>>

\* CombatScreen._monster_turn: 1d6 attack
MonsterTurn ==
    /\ probe.impl = None
    /\ \E d20 \in D20, strength_modifier \in {0, 3}, has_actions \in BOOLEAN :
       \E dice \in ScreenDice(probe.bonus, d20, 6) :
       \E o \in {_monster_turn(TargetHp, probe.ac, probe.bonus,
                                 strength_modifier, has_actions, d20, dice)} :
             probe' = Swing("screen_monster", d20,
                            [n |-> 1, m |-> 6, k |-> 0, extra |-> strength_modifier],
                            IF o.hit /\ has_actions THEN dice ELSE 0, 0,
                            o.hit, o.message = "critical", o.damage)
    /\ ret' = Ret("_monster_turn", None, None)
    /\ UNCHANGED <<engine, service, web>>

NextAttack == EngineAttack \/ ServiceAttack \/ ScreenAttack \/ MonsterTurn

SpecAttack == InitAttack /\ [][NextAttack]_vars

\* ------------------------------------------------------------------
\* Initiative rolled once by each implementation, for every vector of d20
\* results up to InitCap, ties included.
RollEngine ==
    /\ Idle
    /\ \E rolls \in [Ids -> 1..InitCap] : engine' = start_combat(engine, rolls)
    /\ ret' = Ret("start_combat", None, "state")
    /\ UNCHANGED <<service, web, probe>>

RollService ==
    /\ Idle
    /\ \E rolls \in [SvcIds -> 1..InitCap] : service' = initialize_combat(rolls)
    /\ ret' = Ret("initialize_combat", None, None)
    /\ UNCHANGED <<engine, web, probe>>

RollRouter ==
    /\ Idle
    /\ \E rolls \in [WebIds -> 1..InitCap] : web' = web_start_combat(rolls)
    /\ ret' = Ret("web_start_combat", None, None)
    /\ UNCHANGED <<engine, service, probe>>

NextInitiative == RollEngine \/ RollService \/ RollRouter

SpecInitiative == Init /\ [][NextInitiative]_vars

\* ------------------------------------------------------------------
\* Monster AI.  ai_script and actions are fields of the monster's Combatant;
\* an entry of actions is an action dict with its "used" and
\* "requires_target" keys.
MonsterAction(desc, used, requires_target) ==
    [desc |-> desc, used |-> used, requires_target |-> requires_target]

\* {"action": None}
NoAction == Action(None, "none", None, None, None, 0, None)

Decision(action, target) == [action |-> action, target |-> target]

\* variant: the attack is chosen without looking at the monster's position
_get_basic_attack_from_anywhere(monster, actions, target) ==
    IF actions # <<>> THEN Decision(actions[1].desc, target.id)
    ELSE Decision(NoAction, None)

_get_basic_attack(monster, actions, target) ==
    IF monster.position # "melee" THEN Decision(MoveMelee, None)
    ELSE IF actions # <<>> THEN Decision(actions[1].desc, target.id)
    ELSE Decision(NoAction, None)

get_monster_action(e, monster_id, ai_script, actions) ==
    IF monster_id \notin DOMAIN e.combatants \/ ~is_alive(e.combatants[monster_id])
    THEN Decision(NoAction, None)
    ELSE LET monster == e.combatants[monster_id]
             players == {k \in 1..Len(DictOrder) :
                            /\ e.combatants[DictOrder[k]].type = "player"
                            /\ is_alive(e.combatants[DictOrder[k]])}
         IN IF players = {} THEN Decision(NoAction, None)
            ELSE LET player == e.combatants[DictOrder[
                                  CHOOSE k \in players : \A h \in players : k <= h]]
                     script == IF ai_script \in {None, ""} THEN "basic_melee"
                               ELSE ai_script
                     unused == {k \in 1..Len(actions) :
                                   actions[k].desc.kind = "special" /\ ~actions[k].used}
                 IN CASE script = "basic_melee" /\ monster.position # "melee" ->
                            Decision(MoveMelee, None)
                      [] script = "basic_melee" /\ monster.position = "melee"
                            /\ actions # <<>> ->
                            Decision(actions[1].desc, player.id)
                      [] script = "control_first" /\ unused # {} ->
                            LET k == CHOOSE k \in unused : \A h \in unused : k <= h
                            IN Decision(actions[k].desc,
                                        IF actions[k].requires_target
                                        THEN player.id ELSE None)
                      [] OTHER -> _get_basic_attack(monster, actions, player)

\* the ai_script values and action lists given to the monster
Scripts == {None, "", "basic_melee", "control_first", "control_then_damage", "berserk"}

ActionLists ==
    {<<>>,
     <<MonsterAction(Stab, FALSE, TRUE)>>,
     <<MonsterAction(CunningHide, FALSE, FALSE), MonsterAction(Stab, FALSE, TRUE)>>,
     <<MonsterAction(CunningHide, TRUE, FALSE), MonsterAction(Stab, FALSE, TRUE)>>,
     <<MonsterAction(Stab, FALSE, TRUE), MonsterAction(Mystery, FALSE, TRUE)>>,
     <<MonsterAction(CunningHide, FALSE, FALSE), MonsterAction(Mystery, FALSE, TRUE)>>,
     <<MonsterAction(Mystery, TRUE, TRUE), MonsterAction(CunningHide, TRUE, FALSE)>>}

\* m1 wins initiative; its position and the player's hit points vary
InitMonsterAI ==
    /\ engine = NewEngine
    /\ service = NewService
    /\ web = NewWeb
    /\ \E ai_script \in Scripts, actions \in ActionLists,
          position \in {"melee", "ranged"}, hp \in {0, 2} :
          probe = [engine |-> [start_combat(NewEngine,
                                            [i \in Ids |-> IF i = PlayerId THEN 5 ELSE 6])
                                  EXCEPT !.combatants["m1"].position = position,
                                         !.combatants[PlayerId].current_hp = hp],
                   ai_script |-> ai_script, actions |-> actions,
                   decision |-> Decision(NoAction, None),
                   performed |-> {}, phase |-> "turn", turns |-> 0]
    /\ ret = Ret("init", None, None)

GetMonsterAction ==
    /\ probe.phase = "turn"
    /\ probe' = [probe EXCEPT
                    !.decision = get_monster_action(probe.engine, "m1",
                                                    probe.ai_script, probe.actions),
                    !.phase = "decided"]
    /\ ret' = Ret("get_monster_action", "m1", None)
    /\ UNCHANGED <<engine, service, web>>

\* the caller hands the decision to process_action
MonsterActs ==
    /\ probe.phase = "decided"
    /\ probe.decision.action # NoAction
    /\ LET action == probe.decision.action
           tid == probe.decision.target
       IN \E d20 \in AttackRolls(probe.engine, "m1", action, tid) :
          \E dice \in DiceRolls(action, d20) :
          \E r \in {process_action(probe.engine, "m1", action, tid, d20, dice)} :
             /\ Within(r.engine)
             /\ probe' = [probe EXCEPT
                             !.engine = r.engine,
                             !.performed = IF r.result = "special"
                                           THEN @ \cup {action.name} ELSE @,
                             !.phase = "acted"]
             /\ ret' = [Ret("process_action", "m1", r.result) EXCEPT !.type = action.type]
    /\ UNCHANGED <<engine, service, web>>

\* end_turn of the monster, then of the player, brings the monster's next turn
AIEndTurn ==
    /\ probe.phase \in {"decided", "acted", "waiting"}
    /\ probe.turns < MaxTurns
    /\ probe.engine.current_turn < Len(probe.engine.turn_order)
    /\ \A i \in Ids : is_alive(probe.engine.combatants[i])
    /\ \E n \in {end_turn(probe.engine, 0)} :
          /\ Within(n)
          /\ probe' = [probe EXCEPT
                          !.engine = n,
                          !.phase = IF probe.phase = "waiting" THEN "turn" ELSE "waiting",
                          !.turns = IF probe.phase = "waiting" THEN @ + 1 ELSE @]
    /\ ret' = Ret("end_turn", None, "state")
    /\ UNCHANGED <<engine, service, web>>

NextMonsterAI == GetMonsterAction \/ MonsterActs \/ AIEndTurn

SpecMonsterAI == InitMonsterAI /\ [][NextMonsterAI]_vars

\* ------------------------------------------------------------------
\* Two encounters hosted by one application.  Each encounter works through
\* a handle: an instance the application constructed for it, or the instance
\* the module exports (combat_engine, combat_service).
Encounters == {"a", "b"}

\* the object behind the handle of encounter x
Handle(p, x) == IF p.shared THEN "module" ELSE x

\* the session encounter x works on
Session(p, x) == p.heap[Handle(p, x)]

InitSessions ==
    /\ engine = NewEngine
    /\ service = NewService
    /\ web = NewWeb
    /\ \E kind \in {"engine", "service"}, shared \in BOOLEAN :
          probe = [kind |-> kind, shared |-> shared,
                   heap |-> [o \in Encounters \cup {"module"} |->
                                IF kind = "engine" THEN NewEngine ELSE NewService],
                   last |-> None, steps |-> 0]
    /\ ret = Ret("init", None, None)

Operate(x, op, session) ==
    /\ probe' = [probe EXCEPT !.heap[Handle(probe, x)] = session,
                              !.last = x, !.steps = @ + 1]
    /\ ret' = Ret(op, x, None)
    /\ UNCHANGED <<engine, service, web>>

\* start_combat / initialize_combat of encounter x
SessionStart(x) ==
    /\ probe.steps < MaxSteps
    /\ IF probe.kind = "engine"
       THEN \E rolls \in InitRolls :
               Operate(x, "start_combat", start_combat(Session(probe, x), rolls))
       ELSE \E rolls \in SvcInitRolls :
               Operate(x, "initialize_combat", initialize_combat(rolls))

\* process_action / attack by the current combatant of encounter x
SessionAct(x) ==
    /\ probe.steps < MaxSteps
    /\ LET s == Session(probe, x)
       IN IF probe.kind = "engine"
          THEN /\ s.round_number > 0
               /\ s.current_turn < Len(s.turn_order)
               /\ \E tid \in Ids, d20 \in {5, 15}, dice \in DiceSums(1, Shoot.dmgM) :
                  \E r \in {process_action(s, s.turn_order[s.current_turn + 1],
                                             Shoot, tid, d20, dice)} :
                     /\ Within(r.engine)
                     /\ Operate(x, "process_action", r.engine)
          ELSE /\ s.state = "in_progress"
               /\ \E tid \in SvcIds, d20 \in {5, 15}, dice \in DiceSums(1, Shortsword.m) :
                  LET aid == s.turn_order[s.current_turn + 1]
                  IN /\ ~attack_raises(s, aid, tid)
                     /\ \E n \in {attack(s, aid, tid, Shortsword, d20, dice)} :
                           /\ SvcWithin(n)
                           /\ Operate(x, "attack", n)

\* end_turn / next_turn of encounter x
SessionAdvance(x) ==
    /\ probe.steps < MaxSteps
    /\ LET s == Session(probe, x)
       IN IF probe.kind = "engine"
          THEN /\ s.round_number > 0
               /\ s.current_turn < Len(s.turn_order)
               /\ \E n \in {end_turn(s, 12)} :
                     Within(n) /\ Operate(x, "end_turn", n)
          ELSE /\ s.state = "in_progress"
               /\ \E r \in {next_turn(s)} :
                     SvcWithin(r.service) /\ Operate(x, "next_turn", r.service)

NextSessions ==
    \E x \in Encounters : SessionStart(x) \/ SessionAct(x) \/ SessionAdvance(x)

SpecSessions == InitSessions /\ [][NextSessions]_vars

\* ------------------------------------------------------------------
\* Movement of the player over some rounds, for walking speeds of 20, 25 and
\* 30 feet (Combatant.speed is set by the caller and defaults to 30).
Speeds == {20, 25, 30}

InitMovement ==
    /\ engine = NewEngine
    /\ service = NewService
    /\ web = NewWeb
    /\ \E speed \in Speeds, position \in Positions :
          LET e == start_combat(NewEngine, [i \in Ids |-> IF i = PlayerId THEN 6 ELSE 5])
          IN probe = [engine |-> [e EXCEPT !.combatants[PlayerId].speed = speed,
                                          !.combatants[PlayerId].movement_remaining = speed,
                                          !.combatants[PlayerId].position = position],
                      before |-> e, position |-> None, turns |-> 0]
    /\ ret = Ret("init", None, None)

\* process_action(player, {"type": "movement", "position": position})
MoveTo(position) ==
    /\ \E r \in {process_action(probe.engine, PlayerId,
                                 IF position = "melee" THEN MoveMelee ELSE MoveRanged,
                                 None, 0, 0)} :
          /\ Within(r.engine)
          /\ probe' = [probe EXCEPT !.engine = r.engine, !.before = probe.engine,
                                    !.position = position]
          /\ ret' = [Ret("process_action", PlayerId, r.result) EXCEPT !.type = "movement"]
    /\ UNCHANGED <<engine, service, web>>

\* process_action(player, Cunning Action dash): movement_remaining += speed
DashOn ==
    /\ \E r \in {process_action(probe.engine, PlayerId, CunningDash, None, 0, 0)} :
          /\ Within(r.engine)
          /\ probe' = [probe EXCEPT !.engine = r.engine, !.before = probe.engine,
                                    !.position = None]
          /\ ret' = [Ret("process_action", PlayerId, r.result)
                        EXCEPT !.type = "bonus_action"]
    /\ UNCHANGED <<engine, service, web>>

\* end_turn: at the rollover movement_remaining is set back to speed
MoveEndTurn ==
    /\ probe.turns < 2 * MaxTurns
    /\ \E n \in {end_turn(probe.engine, 0)} :
          /\ Within(n)
          /\ probe' = [probe EXCEPT !.engine = n, !.before = probe.engine,
                                    !.position = None, !.turns = @ + 1]
    /\ ret' = Ret("end_turn", None, "state")
    /\ UNCHANGED <<engine, service, web>>

NextMovement == (\E position \in Positions : MoveTo(position)) \/ DashOn \/ MoveEndTurn

SpecMovement == InitMovement /\ [][NextMovement]_vars

\* ------------------------------------------------------------------
\* The three ability-modifier computations, applied to one score.
\* Monster.dexterity_modifier (models/monsters.py):
\*   (self.dexterity - 10) // 2 if self.dexterity else 0
dexterity_modifier(dexterity) ==
    IF dexterity # 0 THEN (dexterity - 10) \div 2 ELSE 0

\* GameQueries.ability_modifier (backend/database.py): (score - 10) // 2
GameQueries_ability_modifier(score) == (score - 10) \div 2

Scores == (0 - ScoreCap)..ScoreCap

InitModifier ==
    /\ engine = NewEngine
    /\ service = NewService
    /\ web = NewWeb
    /\ \E score \in Scores : probe = [score |-> score, by |-> None, modifier |-> 0]
    /\ ret = Ret("init", None, None)

Computed(by, modifier) ==
    /\ probe.by = None
    /\ probe' = [probe EXCEPT !.by = by, !.modifier = modifier]
    /\ ret' = Ret(by, None, None)
    /\ UNCHANGED <<engine, service, web>>

CombatantModifier == Computed("Combatant.ability_modifier", ability_modifier(probe.score))

MonsterModifier == Computed("Monster.dexterity_modifier", dexterity_modifier(probe.score))

QueriesModifier ==
    Computed("GameQueries.ability_modifier", GameQueries_ability_modifier(probe.score))

NextModifier == CombatantModifier \/ MonsterModifier \/ QueriesModifier

SpecModifier == InitModifier /\ [][NextModifier]_vars

\* ------------------------------------------------------------------
\* Action Surge submitted with each action type its descriptor can carry:
\* no "type" key (ActionType defaults to "action"), "bonus_action", "free".
SurgeAsAction == Action("action", "special", "Action Surge", None, None, 0, None)
SurgeAsBonus == Action("bonus_action", "special", "Action Surge", None, None, 0, None)
Surges == {SurgeAsAction, SurgeAsBonus, ActionSurge}

InitSurge ==
    /\ engine = NewEngine
    /\ service = NewService
    /\ web = NewWeb
    /\ \E position \in Positions :
          LET e == start_combat(NewEngine, [i \in Ids |-> IF i = PlayerId THEN 6 ELSE 5])
          IN probe = [engine |-> [e EXCEPT !.combatants[PlayerId].position = position],
                      action |-> NoAction]
    /\ ret = Ret("init", None, None)

\* process_action(player, action, target)
Submit(action, tid) ==
    /\ \E d20 \in AttackRolls(probe.engine, PlayerId, action, tid) :
       \E dice \in DiceRolls(action, d20) :
       \E r \in {process_action(probe.engine, PlayerId, action, tid, d20, dice)} :
          /\ Within(r.engine)
          /\ probe' = [probe EXCEPT !.engine = r.engine, !.action = action]
          /\ ret' = [Ret("process_action", PlayerId, r.result) EXCEPT !.type = action.type]
    /\ UNCHANGED <<engine, service, web>>

UseActionSurge == \E action \in Surges : Submit(action, None)

SurgeAttack == \E tid \in MonsterIds : Submit(Stab, tid)

SurgeEndTurn ==
    /\ probe.engine.current_turn < Len(probe.engine.turn_order)
    /\ \E n \in {end_turn(probe.engine, 0)} :
          /\ Within(n)
          /\ probe' = [probe EXCEPT !.engine = n, !.action = NoAction]
    /\ ret' = Ret("end_turn", None, "state")
    /\ UNCHANGED <<engine, service, web>>

NextSurge == UseActionSurge \/ SurgeAttack \/ SurgeEndTurn

SpecSurge == InitSurge /\ [][NextSurge]_vars

\* ------------------------------------------------------------------
\* One CombatService Combatant: built by initialize_combat from a character
\* or monster record, then damaged and healed.
\* Combatant.__post_init__: HP from the record; is_alive keeps its default
post_init(type, hit_points, max_hit_points) ==
    IF type = "character"
    THEN [type |-> type, current_hp |-> hit_points, max_hp |-> max_hit_points,
          is_alive |-> TRUE]
    ELSE [type |-> type,
          current_hp |-> IF hit_points # 0 THEN hit_points ELSE 1,
          max_hp |-> IF hit_points # 0 THEN hit_points ELSE 1,
          is_alive |-> TRUE]

\* Combatant.heal
svc_heal(c, amount) ==
    [c EXCEPT !.current_hp = Min(c.max_hp, c.current_hp + amount)]

InitCombatant ==
    /\ engine = NewEngine
    /\ service = NewService
    /\ web = NewWeb
    /\ \E type \in {"character", "monster"}, max_hit_points \in {1, 3, MaxHp} :
       \E hit_points \in 0..max_hit_points :
          /\ type = "monster" => hit_points \in {0, max_hit_points}
          /\ probe = [combatant |-> post_init(type, hit_points, max_hit_points),
                      calls |-> 0]
    /\ ret = Ret("initialize_combat", None, None)

CombatantTakesDamage ==
    /\ probe.calls < MaxHits
    /\ \E damage \in 0..DamageCap :
          probe' = [probe EXCEPT !.combatant = svc_take_damage(@, damage),
                                 !.calls = @ + 1]
    /\ ret' = Ret("take_damage", None, None)
    /\ UNCHANGED <<engine, service, web>>

CombatantHeals ==
    /\ probe.calls < MaxHits
    /\ \E amount \in 0..DamageCap :
          probe' = [probe EXCEPT !.combatant = svc_heal(@, amount), !.calls = @ + 1]
    /\ ret' = Ret("heal", None, None)
    /\ UNCHANGED <<engine, service, web>>

NextCombatant == CombatantTakesDamage \/ CombatantHeals

SpecCombatant == InitCombatant /\ [][NextCombatant]_vars

\* ------------------------------------------------------------------
\* The snapshots get_combat_state returns.  The dict display reads
\* "is_active": self.is_active before "outcome": self.check_combat_end()
\* runs, so the snapshot carries the flag as it was before the call.
combat_state(e) ==
    [is_active |-> e.is_active, outcome |-> check_combat_end(e.combatants)]

InitSnapshot ==
    /\ engine = NewEngine
    /\ service = NewService
    /\ web = NewWeb
    /\ probe = [engine |-> NewEngine, before |-> NewEngine,
                snapshot |-> combat_state(NewEngine)]
    /\ ret = Ret("init", None, None)

\* start_combat sets is_active and returns get_combat_state()
SnapStartCombat ==
    /\ probe.engine.round_number = 0
    /\ \E rolls \in InitRolls :
       \E n \in {start_combat(probe.engine, rolls)} :
          probe' = [engine |-> n, before |-> probe.engine,
                    snapshot |-> combat_state([n EXCEPT !.is_active = TRUE])]
    /\ ret' = Ret("start_combat", None, "state")
    /\ UNCHANGED <<engine, service, web>>

SnapProcessAction ==
    /\ probe.engine.round_number > 0
    /\ \E cid \in Ids, action \in FightCatalog, tid \in Ids \cup {None} :
          /\ tid # cid
          /\ action.kind = "heal" => tid = None
          /\ \E d20 \in AttackRolls(probe.engine, cid, action, tid) :
             \E dice \in DiceRolls(action, d20) :
             \E r \in {process_action(probe.engine, cid, action, tid, d20, dice)} :
                /\ Within(r.engine)
                /\ probe' = [probe EXCEPT !.engine = r.engine, !.before = probe.engine]
                /\ ret' = [Ret("process_action", cid, r.result) EXCEPT !.type = action.type]
    /\ UNCHANGED <<engine, service, web>>

\* end_turn returns get_combat_state(); is_active is assigned nowhere else
\* in end_turn, so the snapshot carries the flag end_turn was entered with
SnapEndTurn ==
    /\ probe.engine.round_number > 0
    /\ probe.engine.current_turn < Len(probe.engine.turn_order)
    /\ \E d20 \in {1, 10, 20} :
       \E n \in {end_turn(probe.engine, d20)} :
          /\ Within(n)
          /\ ~get_combat_state_raises(n)
          /\ probe' = [engine |-> n, before |-> probe.engine,
                       snapshot |-> combat_state(
                                       [n EXCEPT !.is_active = probe.engine.is_active])]
    /\ ret' = Ret("end_turn", None, "state")
    /\ UNCHANGED <<engine, service, web>>

SnapGetCombatState ==
    /\ ~get_combat_state_raises(probe.engine)
    /\ probe' = [engine |-> get_combat_state(probe.engine), before |-> probe.engine,
                 snapshot |-> combat_state(probe.engine)]
    /\ ret' = Ret("get_combat_state", None, "state")
    /\ UNCHANGED <<engine, service, web>>

NextSnapshot ==
    SnapStartCombat \/ SnapProcessAction \/ SnapEndTurn \/ SnapGetCombatState

SpecSnapshot == InitSnapshot /\ [][NextSnapshot]_vars

\* ------------------------------------------------------------------
\* The desktop CombatScreen: button clicks and the timer callbacks that
\* _update_display schedules with parent.after(1500, self._monster_turn).
\* Tk runs callbacks of equal delay in the order they were scheduled.
\* Each pending callback is tagged with the turn index it was scheduled at;
\* the tag, ran and attacks are observations, the code keeps none of them.
Hero == [armor_class |-> 12, attack_bonus |-> 2, strength_modifier |-> 1,
         hit_points |-> 3]
Brute == [armor_class |-> 12, attack_bonus |-> 2, strength_modifier |-> 0,
          hit_points |-> 2]

Entry(name, type, hp) == [name |-> name, type |-> type, hp |-> hp]

\* initiative orders of one character and two monsters
ScreenOrders ==
    LET c == Entry("hero", "character", Hero.hit_points)
        a == Entry("brute 1", "monster", Brute.hit_points)
        b == Entry("brute 2", "monster", Brute.hit_points)
    IN {<<c, a, b>>, <<a, c, b>>, <<a, b, c>>}

NoRun == [scheduled_at |-> 0, ran_at |-> 0, active |-> TRUE, type |-> "none"]

_update_display(s) ==
    LET is_player_turn == s.initiative_order[s.current_turn + 1].type = "character"
    IN [s EXCEPT !.actions_enabled = is_player_turn /\ s.combat_active,
                 !.end_turn_enabled = s.combat_active,
                 !.pending = IF ~is_player_turn /\ s.combat_active
                             THEN Append(@, s.current_turn) ELSE @]

_end_turn(s) ==
    IF ~s.combat_active THEN s
    ELSE LET ct == (s.current_turn + 1) % Len(s.initiative_order)
         IN _update_display(
              [s EXCEPT !.current_turn = ct,
                        !.current_round = IF ct = 0 THEN @ + 1 ELSE @,
                        !.attacks = IF ct = 0 THEN [n \in DOMAIN @ |-> 0] ELSE @])

AliveMonsters(s) ==
    {k \in 1..Len(s.initiative_order) :
        s.initiative_order[k].type = "monster" /\ s.initiative_order[k].hp > 0}

\* CombatScreen._check_combat_end
screen_check_combat_end(s) ==
    IF AliveMonsters(s) = {} THEN [s EXCEPT !.combat_active = FALSE]
    ELSE IF s.character_hp <= 0 THEN [s EXCEPT !.combat_active = FALSE]
    ELSE s

\* the Attack button
click_attack(s, d20, dice) ==
    IF AliveMonsters(s) = {} THEN s
    ELSE LET k == CHOOSE k \in AliveMonsters(s) : \A j \in AliveMonsters(s) : k <= j
             r == _attack_action(s.initiative_order[k].hp, Brute.armor_class,
                                 Hero.attack_bonus, Hero.strength_modifier, d20, dice)
         IN _end_turn(screen_check_combat_end(
                        [s EXCEPT !.initiative_order[k].hp = r.hp]))

\* the timer runs the oldest pending _monster_turn.  The entry at
\* current_turn is taken for a monster whatever its type: the character has
\* proficiency_bonus and strength_modifier but no actions attribute, so a hit
\* rolled with the character's entry raises before anything is changed
run_monster_turn(s, d20, dice) ==
    LET cur == s.initiative_order[s.current_turn + 1]
        t == [s EXCEPT !.pending = Tail(@),
                       !.ran = [scheduled_at |-> Head(s.pending),
                                ran_at |-> s.current_turn,
                                active |-> s.combat_active, type |-> cur.type]]
    IN IF cur.hp <= 0 THEN _end_turn(t)
       ELSE IF t.character_hp <= 0 THEN _end_turn(screen_check_combat_end(t))
       ELSE IF cur.type = "character"
       THEN IF attack_roll(Hero.attack_bonus, d20).total >= Hero.armor_class
            THEN t
            ELSE _end_turn(screen_check_combat_end(t))
       ELSE LET r == _monster_turn(t.character_hp, Hero.armor_class,
                                   Brute.attack_bonus, Brute.strength_modifier,
                                   TRUE, d20, dice)
            IN _end_turn(screen_check_combat_end(
                           [t EXCEPT !.character_hp = r.hp,
                                     !.attacks[cur.name] = @ + 1]))

ScreenWithin(s) == s.current_round <= MaxRound + 1 /\ Len(s.pending) <= MaxPending

\* CombatScreen.__init__: _initialize_combat, _create_interface, _update_display
InitScreen ==
    /\ engine = NewEngine
    /\ service = NewService
    /\ web = NewWeb
    /\ \E order \in ScreenOrders :
          probe = _update_display(
                    [initiative_order |-> order, character_hp |-> Hero.hit_points,
                     current_turn |-> 0, current_round |-> 1, combat_active |-> TRUE,
                     actions_enabled |-> FALSE, end_turn_enabled |-> FALSE,
                     pending |-> <<>>, ran |-> NoRun, early |-> FALSE,
                     attacks |-> [n \in {"brute 1", "brute 2"} |-> 0]])
    /\ ret = Ret("init", None, None)

Screen(op, s) ==
    /\ ScreenWithin(s)
    /\ probe' = s
    /\ ret' = Ret(op, None, None)
    /\ UNCHANGED <<engine, service, web>>

ClickAttack ==
    /\ probe.actions_enabled
    /\ \E d20 \in {5, 15}, dice \in DiceSums(1, 2) :
          Screen("_attack_action", click_attack(probe, d20, dice))

ClickDefend == probe.actions_enabled /\ Screen("_defend_action", _end_turn(probe))

ClickDash == probe.actions_enabled /\ Screen("_dash_action", _end_turn(probe))

\* End Turn is enabled whenever combat is active, on a monster's turn too
ClickEndTurn ==
    /\ probe.end_turn_enabled
    /\ Screen("_end_turn",
              _end_turn([probe EXCEPT !.early =
                            @ \/ (probe.combat_active /\
                                  probe.initiative_order[probe.current_turn + 1].type
                                      = "monster")]))

TimerFires ==
    /\ probe.pending # <<>>
    /\ \E d20 \in {5, 15}, dice \in DiceSums(1, 2) :
          Screen("_monster_turn", run_monster_turn(probe, d20, dice))

NextScreen == ClickAttack \/ ClickDefend \/ ClickDash \/ ClickEndTurn \/ TimerFires

SpecScreen == InitScreen /\ [][NextScreen]_vars

(***************************************************************************)
(* Properties of the CombatService and of the web router.                  *)
(***************************************************************************)
SvcStarted == service.state # "not_started"

SvcTerminal(s) == s.state \in {"player_victory", "player_defeat"}

SvcLiving(s, type) ==
    {i \in DOMAIN s.combatants : s.combatants[i].type = type /\ s.combatants[i].is_alive}

WebStarted == web.encounter # None

WebLivingCharacter(w) ==
    \E i \in DOMAIN w.participants :
        w.participants[i].character_id # None /\ w.participants[i].current_hp > 0

WebLivingMonster(w) ==
    \E i \in DOMAIN w.participants :
        w.participants[i].monster_id # None /\ w.participants[i].current_hp > 0

WebOutcomes == {"defeat", "victory", "continue"}

\* the outcome is the one the living sides call for, defeat first
C1_OutcomeMatchesSides ==
    /\ SvcStarted =>
          /\ SvcLiving(service, "character") = {} => service.state = "player_defeat"
          /\ (SvcLiving(service, "character") # {} /\ SvcLiving(service, "monster") = {})
                => service.state = "player_victory"
    /\ WebStarted =>
          /\ (~WebLivingCharacter(web) \/ ~WebLivingMonster(web)) => ~web.encounter_is_active
          /\ (ret.op = "process_combat_action" /\ ret.result \in WebOutcomes) =>
                /\ ~WebLivingCharacter(web) => ret.result = "defeat"
                /\ (WebLivingCharacter(web) /\ ~WebLivingMonster(web))
                      => ret.result = "victory"

\* the step that ends the encounter is the action itself and leaves the turn
\* index and the round number alone; afterwards nothing advances them and
\* next_turn returns nothing and changes nothing
C1_NoAdvanceAtEnd ==
    /\ (SvcStarted /\ SvcTerminal(service')) =>
          /\ service'.current_turn = service.current_turn
          /\ service'.current_round = service.current_round
          /\ ~SvcTerminal(service) => ret'.op = "attack"
          /\ (SvcTerminal(service) /\ ret'.op = "next_turn")
                => (service' = service /\ ret'.result = None)
    /\ (WebStarted /\ ~web'.encounter_is_active) =>
          /\ web'.current_turn = web.current_turn
          /\ web'.current_round = web.current_round
          /\ web.encounter_is_active => ret'.op = "process_combat_action"

Started == engine.round_number > 0

CursorInRange == engine.current_turn \in 0..(Len(engine.turn_order) - 1)

CurrentId == engine.turn_order[engine.current_turn + 1]

\* a process_action result that resolved the action (the economy slot is
\* spent and dice were rolled or state was changed)
Resolved == {"hit", "miss", "fumble", "healed", "moved", "special"}

WebCursorInRange == web.current_turn \in 0..(Len(web.turn_order) - 1)

\* C2: the current actor is a living combatant at a valid index.  After
\* end_turn on the CombatEngine, and after a turn advance of the router, the
\* cursor is a valid index of turn_order and the combatant it designates
\* has current_hp > 0.
C2_CurrentActorAlive ==
    /\ (Started /\ ret.op = "end_turn")
          => (CursorInRange /\ is_alive(engine.combatants[CurrentId]))
    /\ (WebStarted /\ ret.result \in {"continue", "skipped"})
          => /\ WebCursorInRange
             /\ web.participants[web.turn_order[web.current_turn + 1]].current_hp > 0

\* C3: hit-point invariant.  Every combatant of the CombatEngine has
\* 0 <= current_hp <= max_hp and temp_hp >= 0, and every combatant of the
\* CombatService has 0 <= current_hp <= max_hp, whatever the damage modifier.
C3_HitPointInvariant ==
    /\ \A i \in DOMAIN engine.combatants :
          LET c == engine.combatants[i]
          IN c.current_hp >= 0 /\ c.current_hp <= c.max_hp /\ c.temp_hp >= 0
    /\ \A i \in DOMAIN service.combatants :
          LET c == service.combatants[i]
          IN c.current_hp >= 0 /\ c.current_hp <= c.max_hp

\* the results with which process_action declines an action after the
\* economy check passed
Declined == {"invalid_target", "not_in_melee", "unknown_ability", "unknown_action"}

\* C4: a declined action mutates nothing.  Whenever process_action returns a
\* declined result no combatant field changes, the actor's economy flags
\* included.
C4_DeclinedMutatesNothing ==
    [][(ret'.op = "process_action" /\ ret'.result \in Declined)
          => engine'.combatants = engine.combatants]_vars

\* the economy slot of an action type is used up
Exhausted(c, type) ==
    \/ type = "action" /\ c.has_taken_action
    \/ type = "bonus_action" /\ c.has_taken_bonus
    \/ type = "reaction" /\ c.has_taken_reaction
    \/ type = "movement" /\ c.movement_remaining = 0

C6_OnlyScheduledActorActs ==
    [][/\ (ret'.op = "process_action" /\ ret'.result \in Resolved)
          => (CursorInRange /\ ret'.actor = CurrentId)
       /\ (ret'.op = "attack" /\ ret'.result # "raised")
          => ret'.actor = service.turn_order[service.current_turn + 1]
       /\ (ret'.op = "process_combat_action" /\ ret'.result \in WebOutcomes)
          => ~not_your_turn(web, ret'.actor)]_vars

\* C7: terminal states are absorbing.  Once check_combat_end reports victory
\* or defeat with is_active false, or the CombatService state is
\* player_victory / player_defeat, no later call changes the outcome.
C7_TerminalAbsorbing ==
    [][/\ (Started /\ ~engine.is_active /\ check_combat_end(engine.combatants) # None)
          => check_combat_end(engine'.combatants) = check_combat_end(engine.combatants)
       /\ SvcTerminal(service) => service'.state = service.state]_vars

\* a combatant that is dead for the encounter: a monster at 0 HP, or a
\* player with three death-save failures
Dead(e, i) ==
    /\ i \in DOMAIN e.combatants
    /\ e.combatants[i].current_hp = 0
    /\ e.combatants[i].type = "monster" \/ e.combatants[i].death_saves_failure >= 3

\* C8: death is permanent.  A dead combatant stays at 0 HP and no
\* process_action submitted with it as actor is resolved.
C8_DeathIsPermanent ==
    [][\A i \in Ids :
          Dead(engine, i) =>
             /\ engine'.combatants[i].current_hp = 0
             /\ ~(ret'.op = "process_action" /\ ret'.actor = i
                    /\ ret'.result \in Resolved)]_vars

\* a player-side combatant at 0 HP that still has to roll death saves
Downed(e, i) ==
    /\ e.combatants[i].type = "player"
    /\ e.combatants[i].current_hp = 0
    /\ e.combatants[i].death_saves_failure < 3

\* C9: a downed player-side combatant rolls a death save on each of its
\* turns.  The cursor never passes over one without a roll: every combatant
\* that end_turn skips is not one that owes a death save.
C9_DownedPlayerRolls ==
    ret.op = "end_turn" => \A i \in ret.skipped : ~Downed(engine, i)

(***************************************************************************)
(* Properties of _process_death_save.                                      *)
(***************************************************************************)
\* C10: death-save outcome table.  A 20 sets current_hp to 1 and both
\* counters to 0; a 1 adds two failures; 10..19 adds one success; 2..9 adds
\* one failure; in the last three cases current_hp stays 0.  Rolls 8, 2, 15
\* from fresh counters give 2 failures and 1 success.
C10_DeathSaveTable ==
    LET b == probe.before
        a == probe.combatant
        r == probe.d20
    IN /\ r = 20 => /\ a.current_hp = 1
                    /\ a.death_saves_success = 0
                    /\ a.death_saves_failure = 0
       /\ r = 1 => /\ a.death_saves_failure = b.death_saves_failure + 2
                   /\ a.death_saves_success = b.death_saves_success
                   /\ a.current_hp = 0
       /\ r \in 10..19 => /\ a.death_saves_success = b.death_saves_success + 1
                          /\ a.death_saves_failure = b.death_saves_failure
                          /\ a.current_hp = 0
       /\ r \in 2..9 => /\ a.death_saves_failure = b.death_saves_failure + 1
                        /\ a.death_saves_success = b.death_saves_success
                        /\ a.current_hp = 0
       /\ probe.rolls = <<8, 2, 15>> => /\ a.death_saves_failure = 2
                                        /\ a.death_saves_success = 1

\* the rolls 8, 2, 15 have been made from fresh counters
C10_Witness == probe.fresh /\ probe.rolls = <<8, 2, 15>>

C12_MassiveDamage ==
    probe.count > 0 =>
        LET cond == /\ probe.damage >= probe.before.max_hp
                    /\ probe.combatant.current_hp = 0
        IN /\ cond => probe.combatant.death_saves_failure = 3
           /\ ~cond => probe.combatant.death_saves_failure
                           = probe.before.death_saves_failure

\* C13: temporary hit points are consumed before current hit points.  After
\* take_damage(d) with d >= 0, temp_hp is max(0, temp_hp - d) and current_hp is
\* max(0, current_hp - max(0, d - temp_hp)).
C13_TempHpFirst ==
    probe.count > 0 =>
        /\ probe.combatant.temp_hp = Max(0, probe.before.temp_hp - probe.damage)
        /\ probe.combatant.current_hp =
              Max(0, probe.before.current_hp
                        - Max(0, probe.damage - probe.before.temp_hp))

\* 5 temp HP and 10 HP taking 8 damage: temp HP 0, HP 7
C13_Witness ==
    /\ probe.count > 0
    /\ probe.before.temp_hp = 5
    /\ probe.before.current_hp = 10
    /\ probe.damage = 8
    /\ probe.combatant.temp_hp = 0
    /\ probe.combatant.current_hp = 7

\* an end_turn call that moves the cursor past the last position of turn_order
C14_Wraps ==
    /\ ret'.op = "end_turn"
    /\ engine.round_number > 0
    /\ engine.current_turn = Len(engine.turn_order) - 1

\* round_number grows by one and every living combatant has its three flags
\* false and a full movement allowance
C14_Reset ==
    /\ engine'.round_number = engine.round_number + 1
    /\ engine'.turn_order = engine.turn_order
    /\ \A i \in DOMAIN engine'.combatants :
          is_alive(engine'.combatants[i]) =>
              /\ ~engine'.combatants[i].has_taken_action
              /\ ~engine'.combatants[i].has_taken_bonus
              /\ ~engine'.combatants[i].has_taken_reaction
              /\ engine'.combatants[i].movement_remaining
                    = engine'.combatants[i].speed

\* C14: round rollover resets the action economy.  Every end_turn that moves
\* the cursor past the last position increases round_number by exactly 1 and
\* leaves every living combatant with the three flags false and
\* movement_remaining equal to its speed; the cursor restarts from index 0 and
\* rests on the first living combatant from there (index 0 itself when the
\* first combatant of turn_order is alive).
C14_RoundRollover ==
    [][C14_Wraps =>
         /\ C14_Reset
         /\ \A k \in 0..(engine'.current_turn - 1) :
               /\ k < Len(engine'.turn_order)
               /\ ~is_alive(engine'.combatants[engine'.turn_order[k + 1]])
         /\ engine'.current_turn < Len(engine'.turn_order) =>
               is_alive(engine'.combatants[engine'.turn_order[engine'.current_turn + 1]])
      ]_vars

\* C14 as stated: after the rollover the cursor is at index 0
C14_ReturnsToIndexZero ==
    [][C14_Wraps => (C14_Reset /\ engine'.current_turn = 0)]_vars

\* a rollover has just happened with the first combatant of turn_order
\* defeated: the cursor rests on the second one, in a new round
C14_Witness ==
    /\ ret.op = "end_turn"
    /\ engine.round_number >= 2
    /\ engine.turn_order[1] \in ret.skipped
    /\ engine.current_turn = 1
    /\ is_alive(engine.combatants[engine.turn_order[2]])

\* C15: natural 20 and natural 1 override the arithmetic.  In every
\* implementation and for every attack bonus and armor class, an attack whose
\* d20 shows 20 is a hit and a critical, and one whose d20 shows 1 is a miss
\* that deals no damage.
C15_NaturalRollsOverride ==
    probe.impl # None =>
        /\ probe.d20 = 20 => (probe.hit /\ probe.crit)
        /\ probe.d20 = 1 => (~probe.hit /\ probe.damage = 0)

\* C16: critical hits double the dice count only.  In CombatEngine and
\* CombatService a hit with damage NdM and modifier K (written in the notation
\* or given as a separate damage_bonus) rolls N dice, a critical hit rolls
\* exactly 2N dice, and either adds K once to what the dice show (a DiceRoller
\* roll of the engine is floored at 0 before damage_bonus is added).
C16_CriticalDoublesDice ==
    (probe.impl \in {"engine", "service"} /\ probe.hit) =>
        LET nt == probe.notation
        IN /\ probe.count = IF probe.d20 = 20 THEN 2 * nt.n ELSE nt.n
           /\ probe.sum \in probe.count..(probe.count * nt.m)
           /\ probe.damage = IF probe.impl = "engine"
                              THEN Max(0, probe.sum + nt.k) + nt.extra
                              ELSE probe.sum + nt.k

\* a critical hit with 2d2-1: four dice showing 8, damage 7
C16_Witness ==
    /\ probe.impl = "engine"
    /\ probe.d20 = 20
    /\ probe.hit
    /\ probe.notation = [n |-> 2, m |-> 2, k |-> -1, extra |-> 0]
    /\ probe.count = 4
    /\ probe.sum = 8
    /\ probe.damage = 7

\* order lists its members by descending initiative, ties by descending
\* dexterity modifier
Ordered(order, initiative, modifier) ==
    \A a, b \in 1..Len(order) :
        a < b =>
            \/ initiative[order[a]] > initiative[order[b]]
            \/ /\ initiative[order[a]] = initiative[order[b]]
               /\ modifier[order[a]] >= modifier[order[b]]

C17_EngineOrdered ==
    Started =>
        Ordered(engine.turn_order,
                [i \in Ids |-> engine.combatants[i].initiative],
                [i \in Ids |-> ability_modifier(engine.combatants[i].dexterity)])

C17_ServiceOrdered ==
    SvcStarted =>
        Ordered(service.turn_order,
                [i \in SvcIds |-> service.combatants[i].initiative],
                [i \in SvcIds |-> SvcEntity[i].dexterity_modifier])

C17_RouterOrdered ==
    WebStarted =>
        Ordered(web.turn_order,
                [i \in WebIds |-> web.participants[i].initiative],
                [i \in WebIds |-> ability_modifier(WebDexterity[i])])

\* C17: initiative ordering.  In the engine, the service and the router the
\* turn order produced at the start of combat lists the combatants by
\* descending initiative total, and combatants with equal totals by the
\* descending dexterity modifier of each of them.
C17_InitiativeOrdering ==
    /\ C17_EngineOrdered
    /\ C17_ServiceOrdered
    /\ C17_RouterOrdered

C18_EngineOrderKept == Started => engine'.turn_order = engine.turn_order

C18_ServiceOrderKept == SvcStarted => service'.turn_order = service.turn_order

\* C18: turn_order is fixed after initiative.  Once combat has started no
\* call of CombatEngine (process_action, end_turn) or CombatService (attack,
\* next_turn) reorders turn_order or removes a combatant from it.
C18_TurnOrderFixed ==
    [][C18_EngineOrderKept /\ C18_ServiceOrderKept]_vars

\* what a call answering an invalid request returns or does
InvalidRequestResults ==
    {"invalid_combatant", "invalid_target", "unknown_action", "unknown_ability",
     "raised"}

\* C19: invalid requests are answered with a declined value, never a raised
\* error.  A process_action or attack call for an unknown actor or target, a
\* defeated attacker, a defeated or missing target or an unrecognized action
\* type, position or ability name returns a declined result, raises nothing and
\* leaves the combat state as it was.
C19_InvalidRequestsDeclined ==
    [][(ret'.op \in {"process_action", "attack"}
          /\ ret'.result \in InvalidRequestResults) =>
         /\ ret'.result # "raised"
         /\ engine' = engine
         /\ service' = service]_vars

\* results of a process_action call that was applied
AppliedResults == {"hit", "healed", "moved", "special"}

\* results of a call that was not applied and says why
ReasonedResults ==
    {"invalid_combatant", "already_used", "invalid_target", "not_in_melee",
     "unknown_ability", "unknown_action", "fumble", "miss"}

\* C20: no silent outcome.  Every process_action call that returns an applied
\* result (hit, heal, movement, special ability, each Cunning Action
\* sub-action) appends at least one entry to combat_log, and every other call
\* returns a result that carries a reason.
C20_NoSilentOutcome ==
    [][ret'.op = "process_action" =>
         /\ ret'.result \in AppliedResults =>
               engine'.combat_log > engine.combat_log
         /\ ret'.result \notin AppliedResults =>
               ret'.result \in ReasonedResults]_vars

\* the basic_melee decision as the spec words it
BasicMelee(e, actions) ==
    IF e.combatants["m1"].position # "melee" THEN Decision(MoveMelee, None)
    ELSE IF actions # <<>> THEN Decision(actions[1].desc, PlayerId)
    ELSE Decision(NoAction, None)

\* C21: monster tactic fallback.  For a living monster and every ai_script
\* outside the catalog, get_monster_action returns what it returns for
\* 'basic_melee' in the same state: a move to melee when the monster is not in
\* melee, otherwise its first action; a returned target is a living player,
\* and the result is no action when no player is alive.
C21_TacticFallback ==
    (probe.phase = "decided" /\ probe.ai_script \notin {"basic_melee", "control_first"}) =>
        /\ probe.decision = get_monster_action(probe.engine, "m1", "basic_melee",
                                                probe.actions)
        /\ probe.decision = IF is_alive(probe.engine.combatants[PlayerId])
                             THEN BasicMelee(probe.engine, probe.actions)
                             ELSE Decision(NoAction, None)
        /\ probe.decision.target # None =>
              /\ probe.engine.combatants[probe.decision.target].type = "player"
              /\ probe.engine.combatants[probe.decision.target].current_hp > 0

\* a monster with an unknown script, in melee, decides to use its first action
\* on the player
C21_Witness ==
    /\ probe.phase = "decided"
    /\ probe.ai_script = "berserk"
    /\ probe.engine.combatants["m1"].position = "melee"
    /\ probe.decision = Decision(Stab, PlayerId)

\* the special actions of the monster that require a target and that it has
\* not used: neither flagged used nor performed in an earlier turn
C22_Available ==
    {k \in 1..Len(probe.actions) :
        /\ probe.actions[k].desc.kind = "special"
        /\ probe.actions[k].requires_target
        /\ ~probe.actions[k].used
        /\ probe.actions[k].desc.name \notin probe.performed}

\* C22: control_first tactic.  A control_first monster facing a living player
\* selects the first special action that requires a target and has not been
\* used yet; when it has used each of them, or has none, its decision is the
\* basic_melee decision, so an already used special action is not selected
\* again in a later turn.
C22_ControlFirst ==
    (/\ probe.phase = "decided"
     /\ probe.ai_script = "control_first"
     /\ is_alive(probe.engine.combatants[PlayerId])) =>
        IF C22_Available # {}
        THEN LET k == CHOOSE k \in C22_Available : \A h \in C22_Available : k <= h
             IN probe.decision = Decision(probe.actions[k].desc, PlayerId)
        ELSE probe.decision = BasicMelee(probe.engine, probe.actions)

\* C23: sessions are independent.  Under any interleaving of the operations
\* of two encounters, an operation of one encounter never changes the
\* combatants, turn order, cursor, round, state or log of the other.
C23_SessionsIndependent ==
    [][\A x, y \in Encounters :
          (x # y /\ probe'.last = x /\ probe'.steps = probe.steps + 1) =>
              Session(probe', y) = Session(probe, y)]_vars

\* the same, for encounters that each work on an instance of their own
C23_OwnInstancesIndependent ==
    [][\A x, y \in Encounters :
          (~probe.shared /\ x # y /\ probe'.last = x
              /\ probe'.steps = probe.steps + 1) =>
              Session(probe', y) = Session(probe, y)]_vars

\* the player before and after the movement request that was just processed
Mover == probe.engine.combatants[PlayerId]
MoverBefore == probe.before.combatants[PlayerId]
JustMoved == ret.op = "process_action" /\ ret.type = "movement"

\* C24: movement cost.  With movement_remaining > 0 a move to a different
\* position sets the position and reduces movement_remaining by exactly 15; a
\* move to the position already held leaves both unchanged;
\* movement_remaining is never negative; with movement_remaining 0 the move
\* is declined without effect.
C24_MovementCost ==
    JustMoved =>
        /\ Mover.movement_remaining >= 0
        /\ (MoverBefore.movement_remaining > 0 /\ probe.position # MoverBefore.position) =>
               /\ ret.result = "moved"
               /\ Mover.position = probe.position
               /\ Mover.movement_remaining = MoverBefore.movement_remaining - 15
        /\ (MoverBefore.movement_remaining > 0 /\ probe.position = MoverBefore.position) =>
               /\ ret.result = "moved"
               /\ Mover.position = MoverBefore.position
               /\ Mover.movement_remaining = MoverBefore.movement_remaining
        /\ MoverBefore.movement_remaining = 0 =>
               /\ ret.result = "already_used"
               /\ probe.engine = probe.before

\* C24 (amended): the same, where a move to a different position reduces
\* movement_remaining by 15, or to 0 when fewer than 15 remain.
C24_MovementCostFloored ==
    JustMoved =>
        /\ Mover.movement_remaining >= 0
        /\ (MoverBefore.movement_remaining > 0 /\ probe.position # MoverBefore.position) =>
               /\ ret.result = "moved"
               /\ Mover.position = probe.position
               /\ Mover.movement_remaining =
                      (IF MoverBefore.movement_remaining < 15 THEN 0
                       ELSE MoverBefore.movement_remaining - 15)
        /\ (MoverBefore.movement_remaining > 0 /\ probe.position = MoverBefore.position) =>
               /\ ret.result = "moved"
               /\ Mover.position = MoverBefore.position
               /\ Mover.movement_remaining = MoverBefore.movement_remaining
        /\ MoverBefore.movement_remaining = 0 =>
               /\ ret.result = "already_used"
               /\ probe.engine = probe.before

\* a position change made with fewer than 15 feet left
C24_Witness ==
    /\ JustMoved
    /\ ret.result = "moved"
    /\ MoverBefore.movement_remaining \in 1..14
    /\ Mover.position # MoverBefore.position
    /\ Mover.movement_remaining = 0

\* m is floor((score - 10) / 2)
IsFloorOfHalf(score, m) == 2 * m <= score - 10 /\ score - 10 < 2 * m + 2

\* C25: the ability modifier is floor((score - 10) / 2) for every integer
\* score, 0 and scores below 10 included (7 gives -2, 0 gives -5), in
\* Combatant.ability_modifier, Monster.dexterity_modifier and
\* GameQueries.ability_modifier.
C25_AbilityModifier ==
    probe.by # None => IsFloorOfHalf(probe.score, probe.modifier)

\* the same for the two computations that take the score as it is
C25_UnguardedModifiers ==
    probe.by \in {"Combatant.ability_modifier", "GameQueries.ability_modifier"} =>
        IsFloorOfHalf(probe.score, probe.modifier)

\* Monster.dexterity_modifier on every score but 0
C25_MonsterNonZero ==
    (probe.by = "Monster.dexterity_modifier" /\ probe.score # 0) =>
        IsFloorOfHalf(probe.score, probe.modifier)

\* how many places after the cursor the first living combatant of s stands
StepsToLiving(s) ==
    LET n == Len(s.turn_order)
        living(k) == s.combatants[s.turn_order[((s.current_turn + k) % n) + 1]].is_alive
    IN CHOOSE k \in 1..n : living(k) /\ \A j \in 1..(k - 1) : ~living(j)

\* the first living combatant after the current one, wrapping around
CyclicSuccessor(s) ==
    s.turn_order[((s.current_turn + StepsToLiving(s)) % Len(s.turn_order)) + 1]

\* the step to the cyclic successor passes the end of the order
Wraps(s) == s.current_turn + StepsToLiving(s) >= Len(s.turn_order)

\* next_turn has just returned a combatant
TurnGiven ==
    /\ ret'.op = "next_turn"
    /\ service.state = "in_progress"
    /\ ret'.result # None

\* C26: CombatService.next_turn is the cyclic successor.  While the state is
\* in progress next_turn makes current the first living combatant that
\* follows the previous current combatant in initiative order, wrapping
\* around, and current_round increases by exactly 1 when, and only when, the
\* step wraps past the end of the order.
C26_CyclicSuccessor ==
    [][TurnGiven =>
          /\ ret'.result = CyclicSuccessor(service)
          /\ service'.turn_order[service'.current_turn + 1] = ret'.result
          /\ service'.current_round =
                 service.current_round + (IF Wraps(service) THEN 1 ELSE 0)]_vars

\* the same for the calls that meet no defeated combatant on their way
C26_SuccessorAmongLiving ==
    [][(TurnGiven /\ StepsToLiving(service) = 1) =>
          /\ ret'.result = CyclicSuccessor(service)
          /\ service'.turn_order[service'.current_turn + 1] = ret'.result
          /\ service'.current_round =
                 service.current_round + (IF Wraps(service) THEN 1 ELSE 0)]_vars

\* process_action has just resolved Action Surge
SurgeResolved ==
    ret.op = "process_action" /\ probe.action \in Surges /\ ret.result = "special"

\* C27: after process_action successfully resolves Action Surge the actor's
\* has_taken_action is false, whatever action type the descriptor carries
\* (action, the default, bonus_action or free).
C27_ActionSurgeRestoresAction ==
    SurgeResolved => ~probe.engine.combatants[PlayerId].has_taken_action

\* the same for the descriptors typed bonus_action or free
C27_SurgeNotTypedAction ==
    (SurgeResolved /\ probe.action.type # "action") =>
        ~probe.engine.combatants[PlayerId].has_taken_action

\* C28: a CombatService Combatant's is_alive flag is true if and only if its
\* current_hp is above 0, right after initialize_combat (whatever HP the
\* record carries, 0 included) and after any sequence of take_damage and
\* heal calls.
C28_AliveIffPositiveHp ==
    probe.combatant.is_alive <=> probe.combatant.current_hp > 0

\* the same right after take_damage
C28_AfterTakeDamage ==
    ret.op = "take_damage" =>
        (probe.combatant.is_alive <=> probe.combatant.current_hp > 0)

\* the same for a combatant that started above 0 HP and was never brought to 0
C28_NeverDefeated ==
    [][(probe.combatant.is_alive /\ probe.combatant.current_hp > 0
           /\ probe'.combatant.current_hp > 0) => probe'.combatant.is_alive]_vars

\* C29: in every snapshot returned by get_combat_state (also through
\* start_combat and end_turn) is_active is false exactly when outcome is
\* victory or defeat and true exactly when outcome is None, and taking a
\* snapshot changes no engine state.
C29_SnapshotConsistent ==
    ret.result = "state" =>
        /\ probe.snapshot.is_active <=> probe.snapshot.outcome = None
        /\ ret.op = "get_combat_state" => probe.engine = probe.before

\* a second snapshot of an ended combat reports is_active false
C29_SecondSnapshot ==
    (ret.op = "get_combat_state" /\ probe.engine = probe.before
        /\ probe.snapshot.outcome # None) => ~probe.snapshot.is_active

\* a snapshot changes nothing but is_active
C29_OnlyIsActive ==
    ret.op = "get_combat_state" =>
        probe.engine = [probe.before EXCEPT !.is_active = probe.engine.is_active]

\* at most one callback is pending, every callback that ran did so while
\* combat was active and on the turn of the monster it was scheduled for,
\* and no monster has attacked twice in the round
CallbacksInStep ==
    /\ Len(probe.pending) <= 1
    /\ probe.ran.type # "none" =>
          /\ probe.ran.active
          /\ probe.ran.ran_at = probe.ran.scheduled_at
          /\ probe.ran.type = "monster"
    /\ \A n \in DOMAIN probe.attacks : probe.attacks[n] <= 1

\* C30: the desktop monster-turn callbacks do not race.  Under any
\* interleaving of button clicks (Attack, Defend, Dash, End Turn) and the
\* delayed _monster_turn callbacks scheduled by _update_display, at most one
\* callback is pending, a callback only executes while combat is active and
\* current_turn still designates the monster it was scheduled for, no
\* monster attacks twice in a round and the character's entry is never
\* processed as a monster.
C30_CallbacksDoNotRace == CallbacksInStep

\* the same as long as End Turn is not clicked during a monster's turn
C30_WithoutEarlyEndTurn == ~probe.early => CallbacksInStep

====
